---- MODULE Spec2Model ----
(***************************************************************************)
(* A model of the protocol layer of adbutils: AdbConnection framing,       *)
(* BaseClient host commands and device tracking, BaseDevice transport      *)
(* negotiation, the two shell protocols and the forward/reverse tables.    *)
(*                                                                         *)
(* Wire data is a sequence of byte values 0..255.  The peer's side of a    *)
(* connection is a scripted byte stream; the value TIMEOUT inside a        *)
(* stream marks a point where the socket read blocks past its deadline,    *)
(* and the end of the stream is the peer closing the connection.           *)
(***************************************************************************)
EXTENDS Integers, Sequences, FiniteSets, TLC

VARIABLES
    call,          \* the operation being run and its arguments
    script,        \* byte streams the server will deliver, one per connection, in creation order
    features,      \* the feature list the device really has (bytes of the comma separated list)
    dev,           \* the BaseDevice object: _serial, _transport_id, _features
    conns,         \* every AdbConnection made so far, in creation order
    ret,           \* outcome of the operation: exception name, value, message
    pc,            \* "ready" before the operation has run, "done" after it
    ncalls,        \* number of operations run on the device object
    orig_devices,  \* track_devices: the previous snapshot
    events,        \* track_devices: the events yielded for the latest snapshot, in order
    nsnap,         \* track_devices: number of snapshots read
    localfs,       \* the local file system: the files and directories that exist
    attempts,      \* AdbConnection construction: the connects and server starts made, in order
    handles,       \* the local files the program has opened, in order: path and whether closed
    thr            \* threads: the StopEvent flags, the position of the worker thread, the lines written,
                   \* the line the worker holds, what the device is still to send, whether it has closed

vars == <<call, script, features, dev, conns, ret, pc, ncalls, orig_devices, events, nsnap,
          localfs, attempts, handles, thr>>

trackVars == <<orig_devices, events, nsnap>>

hostVars == <<localfs, attempts, handles, thr>>

-----------------------------------------------------------------------------
(* Bounds of the model *)

MaxSnapshots == 3     \* snapshots read by one track_devices run
MaxLines == 3         \* lines in a forward/reverse table body
MaxFrames == 3        \* shell v2 frames before the exit frame
MaxPieces == 4        \* pieces the captured shell v1 output is built from
MaxCalls == 3         \* shell2 calls made on one device object
MaxOut == 3           \* pieces the output of a shell command is built from
MaxWhole == 2         \* snapshots the server sends whole before it is killed
MaxCuts == 2          \* places where the transport splits one response

-----------------------------------------------------------------------------
(* Bytes and text *)

TIMEOUT == 0 - 1

\* in a peer's stream: the bytes before and after it arrive in separate
\* segments, so one recv on the socket does not return bytes of both
SEG == 0 - 2

Min(a, b) == IF a < b THEN a ELSE b

AsciiLow == " !\"#$%&'()*+,-./0123456789:;<=>?@ABCDEFGHIJKLMNOPQRSTUVWXYZ[\\]^_"

AsciiHigh == "abcdefghijklmnopqrstuvwxyz{|}~"

\* ord() of a one character string (space..'_' are 32..95, 'a'..'~' are 97..126)
Ord(ch) ==
    IF ch = "\n" THEN 10
    ELSE IF ch = "\t" THEN 9
    ELSE IF \E i \in 1..Len(AsciiLow) : SubSeq(AsciiLow, i, i) = ch
         THEN 31 + (CHOOSE i \in 1..Len(AsciiLow) : SubSeq(AsciiLow, i, i) = ch)
         ELSE 96 + (CHOOSE i \in 1..Len(AsciiHigh) : SubSeq(AsciiHigh, i, i) = ch)

\* str.encode("utf-8") of an ASCII literal
B(s) == [i \in 1..Len(s) |-> Ord(SubSeq(s, i, i))]

Drop(s, n) == SubSeq(s, n + 1, Len(s))

Take(s, n) == SubSeq(s, 1, Min(n, Len(s)))

\* str.isspace for ASCII: space, \t \n \v \f \r and the separators 0x1c..0x1f
IsSpace(b) == b \in {32, 9, 10, 11, 12, 13, 28, 29, 30, 31}

RECURSIVE lstrip(_)
lstrip(s) == IF s # <<>> /\ IsSpace(Head(s)) THEN lstrip(Tail(s)) ELSE s

RECURSIVE rstrip(_)
rstrip(s) == IF s # <<>> /\ IsSpace(s[Len(s)]) THEN rstrip(SubSeq(s, 1, Len(s) - 1)) ELSE s

strip(s) == rstrip(lstrip(s))

\* value of one digit byte, or -1
DigitVal(b) ==
    IF b >= 48 /\ b <= 57 THEN b - 48
    ELSE IF b >= 97 /\ b <= 122 THEN b - 87
    ELSE IF b >= 65 /\ b <= 90 THEN b - 55
    ELSE 0 - 1

RECURSIVE DigitsVal(_, _)
DigitsVal(s, base) ==
    IF s = <<>> THEN 0 ELSE DigitsVal(SubSeq(s, 1, Len(s) - 1), base) * base + DigitVal(s[Len(s)])

\* int(s, base): surrounding whitespace and one sign are accepted, then at
\* least one digit of the base.  Result [ok, n]; ok = FALSE is ValueError.
\* (Underscore separators and the 0x prefix are not modelled.)
int(s, base) ==
    LET t == strip(s)
        neg == t # <<>> /\ t[1] = 45
        u == IF t # <<>> /\ t[1] \in {43, 45} THEN Tail(t) ELSE t
        good == u # <<>> /\ \A i \in 1..Len(u) : DigitVal(u[i]) >= 0 /\ DigitVal(u[i]) < base
    IN  IF good THEN [ok |-> TRUE, n |-> IF neg THEN 0 - DigitsVal(u, base) ELSE DigitsVal(u, base)]
        ELSE [ok |-> FALSE, n |-> 0]

HexDigit(d) == Ord(SubSeq("0123456789abcdef", d + 1, d + 1))

RECURSIVE HexStr(_)
HexStr(n) == IF n < 16 THEN <<HexDigit(n)>> ELSE Append(HexStr(n \div 16), HexDigit(n % 16))

RECURSIVE ZeroPad(_, _)
ZeroPad(s, width) == IF Len(s) >= width THEN s ELSE ZeroPad(<<48>> \o s, width)

\* "{:04x}".format(n)
Format04x(n) == ZeroPad(HexStr(n), 4)

\* A str is the sequence of its code points.  str.encode("utf-8") of one
\* code point; a surrogate (U+D800..U+DFFF) cannot be encoded and gives <<>>
EncodePoint(cp) ==
    IF cp < 128 THEN <<cp>>
    ELSE IF cp < 2048 THEN <<192 + (cp \div 64), 128 + (cp % 64)>>
    ELSE IF cp >= 55296 /\ cp <= 57343 THEN <<>>
    ELSE IF cp < 65536 THEN <<224 + (cp \div 4096), 128 + ((cp \div 64) % 64), 128 + (cp % 64)>>
    ELSE <<240 + (cp \div 262144), 128 + ((cp \div 4096) % 64), 128 + ((cp \div 64) % 64), 128 + (cp % 64)>>

\* str.encode("utf-8"): [ok, b]; ok = FALSE is UnicodeEncodeError
RECURSIVE EncodePoints(_)
EncodePoints(s) == IF s = <<>> THEN <<>> ELSE EncodePoint(Head(s)) \o EncodePoints(Tail(s))

\* the positions of s that hold no ASCII value: ASCII on either side of
\* them is encoded and decoded as itself
NonAscii(s) == {i \in 1..Len(s) : s[i] >= 128}

First(S) == CHOOSE i \in S : \A j \in S : i <= j

Last(S) == CHOOSE i \in S : \A j \in S : j <= i

Encode(s) ==
    IF NonAscii(s) = {} THEN [ok |-> TRUE, b |-> s]
    ELSE IF \E i \in 1..Len(s) : s[i] >= 55296 /\ s[i] <= 57343 THEN [ok |-> FALSE, b |-> <<>>]
    ELSE [ok |-> TRUE,
          b |-> SubSeq(s, 1, First(NonAscii(s)) - 1)
                \o EncodePoints(SubSeq(s, First(NonAscii(s)), Last(NonAscii(s))))
                \o SubSeq(s, Last(NonAscii(s)) + 1, Len(s))]

IsCont(b) == b >= 128 /\ b <= 191

\* the number of bytes the UTF-8 sequence with lead byte b has, 0 for a
\* byte that cannot lead
SeqLen(b) ==
    IF b < 128 THEN 1
    ELSE IF b >= 194 /\ b <= 223 THEN 2
    ELSE IF b >= 224 /\ b <= 239 THEN 3
    ELSE IF b >= 240 /\ b <= 244 THEN 4
    ELSE 0

\* the second byte of a sequence must keep the code point out of the
\* overlong forms, the surrogates and the range above U+10FFFF
SecondOk(lead, b) ==
    IF lead = 224 THEN b >= 160 /\ b <= 191
    ELSE IF lead = 237 THEN b >= 128 /\ b <= 159
    ELSE IF lead = 240 THEN b >= 144 /\ b <= 191
    ELSE IF lead = 244 THEN b >= 128 /\ b <= 143
    ELSE IsCont(b)

\* how many bytes from position i on form the longest prefix of a valid sequence
GoodPrefix(s, i) ==
    LET n == SeqLen(s[i])
    IN  IF n <= 1 THEN 1
        ELSE IF i + 1 > Len(s) \/ ~SecondOk(s[i], s[i + 1]) THEN 1
        ELSE IF n = 2 THEN 2
        ELSE IF i + 2 > Len(s) \/ ~IsCont(s[i + 2]) THEN 2
        ELSE IF n = 3 THEN 3
        ELSE IF i + 3 > Len(s) \/ ~IsCont(s[i + 3]) THEN 3
        ELSE 4

\* the code point of the whole sequence of n bytes at position i
PointAt(s, i, n) ==
    IF n = 1 THEN s[i]
    ELSE IF n = 2 THEN (s[i] - 192) * 64 + (s[i + 1] - 128)
    ELSE IF n = 3 THEN (s[i] - 224) * 4096 + (s[i + 1] - 128) * 64 + (s[i + 2] - 128)
    ELSE (s[i] - 240) * 262144 + (s[i + 1] - 128) * 4096 + (s[i + 2] - 128) * 64 + (s[i + 3] - 128)

RECURSIVE DecodeFrom(_, _)
DecodeFrom(s, i) ==
    IF i > Len(s) THEN <<>>
    ELSE IF SeqLen(s[i]) # 0 /\ GoodPrefix(s, i) = SeqLen(s[i])
    THEN <<PointAt(s, i, SeqLen(s[i]))>> \o DecodeFrom(s, i + SeqLen(s[i]))
    ELSE <<65533>> \o DecodeFrom(s, i + GoodPrefix(s, i))

\* bytes.decode("utf-8", errors="replace"): every longest run of bytes that
\* starts a sequence but does not complete it, and every byte that cannot
\* start one, becomes U+FFFD
Decode(s) ==
    IF NonAscii(s) = {} THEN s
    ELSE SubSeq(s, 1, First(NonAscii(s)) - 1)
         \o DecodeFrom(SubSeq(s, First(NonAscii(s)), Last(NonAscii(s))), 1)
         \o SubSeq(s, Last(NonAscii(s)) + 1, Len(s))

\* the server's encoding of a string block (tests/adb_server.py encode)
Block(s) == Format04x(Len(s)) \o s

-----------------------------------------------------------------------------
(* AdbConnection (_adb.py).  A connection is a record: closed is the       *)
(* 'closed' property, sent the bytes written to the socket, inbuf the      *)
(* bytes the peer delivers that are still unread, rd the bytes read.       *)
(* Every method yields [c, exc, v]: the connection afterwards, "none" or   *)
(* the name of the exception raised, and the value returned (for an        *)
(* exception, its message).                                                 *)

Okay == B("OKAY")
Fail == B("FAIL")

MsgClosed == B("Connection is closed")
MsgReadTimeout == B("adb read timeout")
MsgConnClosed == B("connection closed")
MsgUnknownData == B("Unknown data: ")

R(c, exc, v) == [c |-> c, exc |-> exc, v |-> v]

\* the outcome r of a call, named for the statements K that follow the call
Bind(r, K(_)) == K(r)

AdbConnection(stream) ==
    [closed |-> FALSE, sent |-> <<>>, inbuf |-> stream, rd |-> <<>>, io |-> <<>>]

\* the entry of the io trace for a send or a recv loop that moved n bytes
Io(op, n) == [op |-> op, n |-> n]

\* close that does not look at the closed flag
close_again(c) == [c EXCEPT !.closed = TRUE, !.io = @ \o <<Io("shutdown", 0), Io("close", 0)>>]

\* close: nothing on a closed connection, else shutdown(SHUT_WR) and close
\* on the socket
close(c) ==
    IF c.closed THEN c
    ELSE [c EXCEPT !.closed = TRUE, !.io = @ \o <<Io("shutdown", 0), Io("close", 0)>>]

\* socket.recv(t) on the bytes the peer delivers: at most t bytes of the
\* segment at hand; b'' once the peer has closed; socket.timeout when the
\* deadline passes first
sock_recv(inbuf, t) ==
    Bind(IF inbuf # <<>> /\ Head(inbuf) = SEG THEN Tail(inbuf) ELSE inbuf, LAMBDA buf :
        IF buf # <<>> /\ Head(buf) = TIMEOUT
        THEN [chunk |-> <<>>, rest |-> Tail(buf), exc |-> "socket.timeout"]
        ELSE Bind({i \in 1..Min(t, Len(buf)) : buf[i] < 0}, LAMBDA stop :
                 Bind(IF stop = {} THEN Min(t, Len(buf))
                      ELSE (CHOOSE i \in stop : \A j \in stop : i <= j) - 1, LAMBDA m :
                     [chunk |-> SubSeq(buf, 1, m), rest |-> Drop(buf, m), exc |-> "none"])))

\* the while loop of _read_fully: buffer holds the chunks so far, t is
\* n - len(buffer)
RECURSIVE ReadLoop(_, _, _)
ReadLoop(c, n, buffer) ==
    IF n - Len(buffer) <= 0
    THEN R([c EXCEPT !.io = Append(@, Io("recv", Len(buffer)))], "none", buffer)
    ELSE Bind(sock_recv(c.inbuf, n - Len(buffer)), LAMBDA k :
             IF k.exc # "none"
             THEN R([c EXCEPT !.inbuf = k.rest, !.io = Append(@, Io("recv", Len(buffer)))],
                    k.exc, <<>>)
             ELSE IF k.chunk = <<>>
             THEN R([c EXCEPT !.inbuf = k.rest, !.io = Append(@, Io("recv", Len(buffer)))],
                    "none", buffer)
             ELSE ReadLoop([c EXCEPT !.inbuf = k.rest, !.rd = @ \o k.chunk], n, buffer \o k.chunk))

\* _read_fully that asks the socket once
_read_fully_once(c, n) ==
    IF n <= 0 THEN R(c, "none", <<>>)
    ELSE IF c.closed THEN R(c, "AdbError", MsgClosed)
    ELSE Bind(sock_recv(c.inbuf, n), LAMBDA k :
             R([c EXCEPT !.inbuf = k.rest, !.rd = @ \o k.chunk,
                         !.io = Append(@, Io("recv", Len(k.chunk)))], k.exc, k.chunk))

\* _read_fully: recv until n bytes are collected or recv returns b'' (peer
\* closed); a recv that blocks past the deadline raises socket.timeout and
\* the bytes collected so far are lost with the local buffer.
_read_fully(c, n) ==
    IF n <= 0 THEN R(c, "none", <<>>)
    ELSE IF c.closed THEN R(c, "AdbError", MsgClosed)
    ELSE ReadLoop(c, n, <<>>)

read(c, n) ==
    Bind(_read_fully(c, n), LAMBDA r :
        IF r.exc = "socket.timeout" THEN R(r.c, "AdbTimeout", MsgReadTimeout) ELSE r)

read_exact(c, n) ==
    Bind(_read_fully(c, n), LAMBDA r :
        IF r.exc = "socket.timeout" THEN R(r.c, "AdbTimeout", MsgReadTimeout)
        ELSE IF r.exc # "none" THEN r
        ELSE IF Len(r.v) < n THEN R(r.c, "EOFError", r.v)
        ELSE r)

\* send_command with the number of characters as the length
send_command_chars(c, cmd) ==
    Bind(Encode(cmd), LAMBDA cmd_bytes :
        IF ~cmd_bytes.ok THEN R(c, "UnicodeEncodeError", <<>>)
        ELSE IF c.closed THEN R(c, "AdbError", MsgClosed)
        ELSE R([c EXCEPT !.sent = @ \o Format04x(Len(cmd)) \o cmd_bytes.b,
                         !.io = Append(@, Io("send", Len(Format04x(Len(cmd))) + Len(cmd_bytes.b)))],
               "none", <<>>))

\* send_command: cmd is a str; "{:04x}" pads to four digits and does not cut
send_command(c, cmd) ==
    Bind(Encode(cmd), LAMBDA cmd_bytes :
        IF ~cmd_bytes.ok THEN R(c, "UnicodeEncodeError", <<>>)
        ELSE IF c.closed THEN R(c, "AdbError", MsgClosed)
        ELSE R([c EXCEPT !.sent = @ \o Format04x(Len(cmd_bytes.b)) \o cmd_bytes.b,
                         !.io = Append(@, Io("send", Len(Format04x(Len(cmd_bytes.b))) + Len(cmd_bytes.b)))],
               "none", <<>>))

\* c.conn.send(data): the conn property raises on a closed connection
conn_send(c, data) ==
    IF c.closed THEN R(c, "AdbError", MsgClosed)
    ELSE R([c EXCEPT !.sent = @ \o data, !.io = Append(@, Io("send", Len(data)))], "none", <<>>)

\* c.conn.recv(n): one recv on the socket, no loop and no translation of
\* socket.timeout; at most n of the bytes the peer has delivered, b'' once
\* the peer has closed
conn_recv(c, n) ==
    IF c.closed THEN R(c, "AdbError", MsgClosed)
    ELSE Bind(sock_recv(c.inbuf, n), LAMBDA k :
             R([c EXCEPT !.inbuf = k.rest, !.rd = @ \o k.chunk,
                         !.io = Append(@, Io("recv", Len(k.chunk)))], k.exc, k.chunk))

read_string(c, n) ==
    Bind(read(c, n), LAMBDA r :
        IF r.exc # "none" THEN r ELSE R(r.c, "none", Decode(r.v)))

read_string_block(c) ==
    Bind(read_string(c, 4), LAMBDA l :
        IF l.exc # "none" THEN l
        ELSE IF l.v = <<>> THEN R(l.c, "AdbError", MsgConnClosed)
        ELSE Bind(int(l.v, 16), LAMBDA size :
                 IF ~size.ok THEN R(l.c, "ValueError", l.v)
                 ELSE read_string(l.c, size.n)))

\* check_okay that leaves the message of FAIL unread
check_okay_unread(c) ==
    Bind(read(c, 4), LAMBDA r :
        IF r.exc # "none" THEN r
        ELSE IF r.v = Fail THEN R(r.c, "AdbError", r.v)
        ELSE IF r.v = Okay THEN R(r.c, "none", <<>>)
        ELSE R(r.c, "AdbError", MsgUnknownData \o r.v))

check_okay(c) ==
    Bind(read(c, 4), LAMBDA r :
        IF r.exc # "none" THEN r
        ELSE IF r.v = Fail
             THEN Bind(read_string_block(r.c), LAMBDA b :
                      IF b.exc # "none" THEN b ELSE R(b.c, "AdbError", b.v))
        ELSE IF r.v = Okay THEN R(r.c, "none", <<>>)
        ELSE R(r.c, "AdbError", MsgUnknownData \o r.v))

\* read_until_close(encoding=None): read(4096) until it returns b''
RECURSIVE read_until_close(_, _)
read_until_close(c, content) ==
    Bind(read(c, 4096), LAMBDA r :
        IF r.exc # "none" THEN r
        ELSE IF r.v = <<>> THEN R(r.c, "none", content)
        ELSE read_until_close(r.c, content \o r.v))

-----------------------------------------------------------------------------
(* BaseClient and BaseDevice calls act on a world w = [conns, script, dev] *)
(* and yield [w, exc, v].                                                   *)

WR(w, exc, v) == [w |-> w, exc |-> exc, v |-> v]

\* the outcome r of a connection method, placed on connection i of world w
On(w, i, r) == WR([w EXCEPT !.conns[i] = r.c], r.exc, r.v)

\* BaseClient.make_connection: a new connection, served the next scripted stream
make_connection(w) ==
    LET stream == IF w.script # <<>> THEN Head(w.script) ELSE <<>>
    IN  WR([w EXCEPT !.conns = Append(@, AdbConnection(stream)),
                     !.script = IF @ # <<>> THEN Tail(@) ELSE @],
           "none", Len(w.conns) + 1)

CmdHostVersion == B("host:version")

\* BaseClient.server_version; the with block closes the connection on every exit
server_version(w) ==
    Bind(make_connection(w), LAMBDA m :
    Bind(send_command(m.w.conns[m.v], CmdHostVersion), LAMBDA s :
    Bind(IF s.exc = "none" THEN check_okay(s.c) ELSE s, LAMBDA k :
    Bind(IF k.exc = "none" THEN read_string_block(k.c) ELSE k, LAMBDA b :
    Bind(int(b.v, 16), LAMBDA n :
        LET exc == IF b.exc # "none" THEN b.exc ELSE IF n.ok THEN "none" ELSE "ValueError"
        IN  WR([m.w EXCEPT !.conns[m.v] = close(b.c)], exc, IF exc = "none" THEN n.n ELSE b.v))))))

-----------------------------------------------------------------------------
(* BaseDevice (_device_base.py).  dev = [_serial, _transport_id,           *)
(* _features]; None is <<>> for the serial and 0 for the transport id;     *)
(* _features is the set of feature names ({} until fetched).               *)

RECURSIVE DecStr(_)
DecStr(n) == IF n < 10 THEN <<48 + n>> ELSE Append(DecStr(n \div 10), 48 + (n % 10))

CmdHostTransportIdCmd == B("host-transport-id:")
CmdHostSerialCmd == B("host-serial:")
CmdHostTransportId == B("host:transport-id:")
CmdHostTport == B("host:tport:serial:")
CmdHostTransport == B("host:transport:")
Colon == B(":")

\* c.send_command(cmd) on connection i with no check_okay behind it
SendNoCheck(w, i, cmd) ==
    Bind(send_command(w.conns[i], cmd), LAMBDA s :
        IF s.exc # "none" THEN On(w, i, s) ELSE WR([w EXCEPT !.conns[i] = s.c], "none", i))

\* c.send_command(cmd); c.check_okay() on connection i; yields i when both pass
SendCheck(w, i, cmd) ==
    Bind(send_command(w.conns[i], cmd), LAMBDA s :
    Bind(IF s.exc = "none" THEN check_okay(s.c) ELSE s, LAMBDA k :
        IF k.exc # "none" THEN On(w, i, k) ELSE WR([w EXCEPT !.conns[i] = k.c], "none", i)))

\* open_transport that takes version 41 for an old server
open_transport_above41(w, command) ==
    Bind(make_connection(w), LAMBDA m :
        IF command # <<>>
        THEN IF w.dev._transport_id # 0
             THEN SendCheck(m.w, m.v, CmdHostTransportIdCmd \o DecStr(w.dev._transport_id) \o Colon \o command)
             ELSE IF w.dev._serial # <<>>
             THEN SendCheck(m.w, m.v, CmdHostSerialCmd \o w.dev._serial \o Colon \o command)
             ELSE WR(m.w, "RuntimeError", <<>>)
        ELSE IF w.dev._transport_id # 0
             THEN SendCheck(m.w, m.v, CmdHostTransportId \o DecStr(w.dev._transport_id))
             ELSE IF w.dev._serial # <<>>
             THEN Bind(server_version(m.w), LAMBDA sv :
                      IF sv.exc # "none" THEN sv
                      ELSE IF sv.v > 41
                      THEN Bind(SendCheck(sv.w, m.v, CmdHostTport \o w.dev._serial), LAMBDA k :
                               IF k.exc # "none" THEN k
                               ELSE Bind(read(k.w.conns[m.v], 8), LAMBDA r :
                                        IF r.exc # "none" THEN On(k.w, m.v, r)
                                        ELSE WR([k.w EXCEPT !.conns[m.v] = r.c], "none", m.v)))
                      ELSE SendCheck(sv.w, m.v, CmdHostTransport \o w.dev._serial))
             ELSE WR(m.w, "RuntimeError", <<>>))

\* BaseDevice.open_transport(command): yields the index of the connection.
\* No path of it closes the connection it made.
open_transport(w, command) ==
    Bind(make_connection(w), LAMBDA m :
        IF command # <<>>
        THEN IF w.dev._transport_id # 0
             THEN SendCheck(m.w, m.v, CmdHostTransportIdCmd \o DecStr(w.dev._transport_id) \o Colon \o command)
             ELSE IF w.dev._serial # <<>>
             THEN SendCheck(m.w, m.v, CmdHostSerialCmd \o w.dev._serial \o Colon \o command)
             ELSE WR(m.w, "RuntimeError", <<>>)
        ELSE IF w.dev._transport_id # 0
             THEN SendCheck(m.w, m.v, CmdHostTransportId \o DecStr(w.dev._transport_id))
             ELSE IF w.dev._serial # <<>>
             THEN Bind(server_version(m.w), LAMBDA sv :
                      IF sv.exc # "none" THEN sv
                      ELSE IF sv.v >= 41
                      THEN Bind(SendCheck(sv.w, m.v, CmdHostTport \o w.dev._serial), LAMBDA k :
                               IF k.exc # "none" THEN k
                               ELSE Bind(read(k.w.conns[m.v], 8), LAMBDA r :
                                        IF r.exc # "none" THEN On(k.w, m.v, r)
                                        ELSE WR([k.w EXCEPT !.conns[m.v] = r.c], "none", m.v)))
                      ELSE SendCheck(sv.w, m.v, CmdHostTransport \o w.dev._serial))
             ELSE WR(m.w, "RuntimeError", <<>>))

-----------------------------------------------------------------------------
(* Inputs: what the server may deliver on a connection *)

Serial == B("S1")

BlkNoDevice == Block(B("device 'S1' not found"))
Ack8 == <<5, 0, 0, 0, 0, 0, 0, 0>>

\* answers to a device selection or device command: OKAY (with or without
\* the 8 byte tport acknowledgment), FAIL with its message, an unknown
\* status word, a read that times out, a close before or inside the status
StatusStreams ==
    { Okay \o Ack8, Okay, Okay \o <<TIMEOUT>>, Fail \o BlkNoDevice, Fail \o B("00"),
      B("WHAT"), <<TIMEOUT>>, <<>>, B("OK") }

\* answers to host:version: 1.0.41, 1.0.40, FAIL, garbage digits, timeout, close
VersionStreams ==
    { Okay \o Block(B("0029")), Okay \o Block(B("0028")), Fail \o Block(B("unknown host service")),
      Okay \o Block(B("zz")), <<TIMEOUT>>, <<>> }

Devices == { [_serial |-> Serial, _transport_id |-> 0, _features |-> {}],
             [_serial |-> <<>>, _transport_id |-> 5, _features |-> {}] }

NoRet == [exc |-> "none", v |-> <<>>]

World == [conns |-> conns, script |-> script, dev |-> dev]

\* the variables after a call that ended as r
Done(r) ==
    /\ conns' = r.w.conns
    /\ script' = r.w.script
    /\ dev' = r.w.dev
    /\ ret' = [exc |-> r.exc, v |-> r.v]
    /\ pc' = "done"
    /\ ncalls' = ncalls + 1

TrackIdle == orig_devices = <<>> /\ events = <<>> /\ nsnap = 0

\* StopEvent(): both threading.Event objects start cleared
StopEvent == [stop |-> FALSE, done |-> FALSE]

\* no thread but the caller: an event nobody uses, no worker, nothing written
NoThreads ==
    [event |-> StopEvent, worker |-> "none", out |-> <<>>, ndone |-> 0,
     line |-> <<>>, feed |-> <<>>, peer |-> "open"]

HostIdle == localfs = {} /\ attempts = <<>> /\ handles = <<>> /\ thr = NoThreads

-----------------------------------------------------------------------------
(* open_transport on its own *)

CmdGetState == B("get-state")

InitOpenTransport ==
    /\ call \in [name : {"open_transport"}, command : {<<>>, CmdGetState}]
    /\ script \in {<<d, v>> : d \in StatusStreams, v \in VersionStreams}
    /\ features = <<>>
    /\ dev \in Devices
    /\ conns = <<>>
    /\ ret = NoRet
    /\ pc = "ready"
    /\ ncalls = 0
    /\ TrackIdle
    /\ HostIdle

OpenTransport ==
    /\ pc = "ready"
    /\ call.name = "open_transport"
    /\ Done(open_transport(World, call.command))
    /\ UNCHANGED <<call, features, trackVars, hostVars>>

SpecOpenTransport == InitOpenTransport /\ [][OpenTransport]_vars

-----------------------------------------------------------------------------
(* BaseDevice.forward *)

CmdForward == B("forward")
CmdNorebind == B(":norebind")
Semi == B(";")

ForwardCmd(local, remote, norebind) ==
    CmdForward \o (IF norebind THEN CmdNorebind ELSE <<>>) \o Colon \o local \o Semi \o remote

\* forward: one open_transport(cmd), which reads one status frame, then close
forward(w, local, remote, norebind) ==
    Bind(open_transport(w, ForwardCmd(local, remote, norebind)), LAMBDA o :
        IF o.exc # "none" THEN o
        ELSE WR([o.w EXCEPT !.conns[o.v] = close(@)], "none", <<>>))

BlkCannotRebind == Block(B("cannot rebind existing socket"))

\* answers to host-serial:<serial>:forward:... : the server acknowledges the
\* request with OKAY and then reports the result with OKAY or FAIL
ForwardStreams ==
    { Okay \o Okay, Okay \o Fail \o BlkCannotRebind, Okay, Okay \o <<TIMEOUT>>,
      Okay \o B("WHAT"), Fail \o BlkNoDevice, <<TIMEOUT>>, <<>>, B("WHAT") }

Locals == {B("tcp:7001"), B("localabstract:a")}
Remotes == {B("tcp:80"), B("tcp:81")}

InitForward ==
    /\ call \in [name : {"forward"}, local : Locals, remote : Remotes, norebind : BOOLEAN]
    /\ script \in {<<d>> : d \in ForwardStreams}
    /\ features = <<>>
    /\ dev \in Devices
    /\ conns = <<>>
    /\ ret = NoRet
    /\ pc = "ready"
    /\ ncalls = 0
    /\ TrackIdle
    /\ HostIdle

Forward ==
    /\ pc = "ready"
    /\ call.name = "forward"
    /\ Done(forward(World, call.local, call.remote, call.norebind))
    /\ UNCHANGED <<call, features, trackVars, hostVars>>

SpecForward == InitForward /\ [][Forward]_vars

-----------------------------------------------------------------------------
(* BaseDevice._shell_v2 *)

CmdShellV2 == B("shell,v2:")

\* int.from_bytes(b, byteorder="little")
RECURSIVE FromBytesLittle(_)
FromBytesLittle(b) == IF b = <<>> THEN 0 ELSE b[1] + 256 * FromBytesLittle(Tail(b))

\* the buffers of _shell_v2 and whether the loop has hit its break
Buffers == [stdout |-> <<>>, stderr |-> <<>>, output |-> <<>>, exit_code |-> 255, brk |-> FALSE]

\* Dispatch with the stderr branch not writing to output_buffer
DispatchStderrNotCombined(b, msg_id, data) ==
    IF msg_id = 1 THEN [b EXCEPT !.stdout = @ \o data, !.output = @ \o data]
    ELSE IF msg_id = 2 THEN [b EXCEPT !.stderr = @ \o data]
    ELSE IF msg_id = 3 THEN [b EXCEPT !.exit_code = data[1], !.brk = TRUE]
    ELSE b

\* the if/elif chain on msg_id: a frame with any other id falls through it
Dispatch(b, msg_id, data) ==
    IF msg_id = 1 THEN [b EXCEPT !.stdout = @ \o data, !.output = @ \o data]
    ELSE IF msg_id = 2 THEN [b EXCEPT !.stderr = @ \o data, !.output = @ \o data]
    ELSE IF msg_id = 3 THEN [b EXCEPT !.exit_code = data[1], !.brk = TRUE]
    ELSE b

\* the while True loop: yields the buffers at the break, or the exception
RECURSIVE FrameLoop(_, _)
FrameLoop(c, b) ==
    Bind(read_exact(c, 5), LAMBDA header :
        IF header.exc # "none" THEN header
        ELSE LET msg_id == header.v[1]
                 length == FromBytesLittle(SubSeq(header.v, 2, 5))
             IN  IF length = 0 THEN FrameLoop(header.c, b)
                 ELSE Bind(read_exact(header.c, length), LAMBDA data :
                          IF data.exc # "none" THEN data
                          ELSE Bind(Dispatch(b, msg_id, data.v), LAMBDA nb :
                                   IF nb.brk THEN R(data.c, "none", nb)
                                   ELSE FrameLoop(data.c, nb))))

\* _shell_v2: no path of it closes the connection
_shell_v2(w, cmdargs) ==
    Bind(open_transport(w, <<>>), LAMBDA o :
        IF o.exc # "none" THEN o
        ELSE Bind(SendCheck(o.w, o.v, CmdShellV2 \o cmdargs), LAMBDA k :
        IF k.exc # "none" THEN k
        ELSE Bind(FrameLoop(k.w.conns[o.v], Buffers), LAMBDA f :
        IF f.exc # "none" THEN On(k.w, o.v, f)
        ELSE WR([k.w EXCEPT !.conns[o.v] = f.c], "none",
                [command |-> cmdargs, returncode |-> f.v.exit_code, output |-> f.v.output,
                 stderr |-> f.v.stderr, stdout |-> f.v.stdout]))))

\* the device side encoding of a shell v2 frame (tests/adb_server.py)
ToBytesLittle4(n) == <<n % 256, (n \div 256) % 256, (n \div 65536) % 256, (n \div 16777216) % 256>>

EncodeFrame(fr) == <<fr.id>> \o ToBytesLittle4(Len(fr.data)) \o fr.data

RECURSIVE EncodeFrames(_)
EncodeFrames(frs) == IF frs = <<>> THEN <<>> ELSE EncodeFrame(Head(frs)) \o EncodeFrames(Tail(frs))

Frame(id, data) == [id |-> id, data |-> data]

\* frames a device may send before the exit frame: stdout, stderr, empty
\* payloads, and frames with an id the client does not know (0 is stdin,
\* 5 is window-size-change in the shell protocol)
DataFrames ==
    { Frame(1, B("o")), Frame(1, B("ab")), Frame(2, B("e")), Frame(1, <<>>),
      Frame(0, B("x")), Frame(5, B("w")) }

\* how the stream ends: an exit frame, an exit frame with no payload or a
\* longer one, the peer closing, a read timing out, a cut frame
Endings ==
    { <<Frame(3, <<0>>)>>, <<Frame(3, <<1>>)>>, <<Frame(3, <<255>>)>>, <<Frame(3, <<2, 7>>)>>,
      <<Frame(3, <<>>)>>, <<>> }

Cuts == { <<>>, <<TIMEOUT>>, <<1, 9, 0, 0, 0, 111>> }

FrameSeqs == UNION {[1..n -> DataFrames] : n \in 0..MaxFrames}

Ver41 == Okay \o Block(B("0029"))
Ver40 == Okay \o Block(B("0028"))

CmdArgs == B("pwd")

\* the shell v2 conversations: the frames the device sends and how they end
\* behind a passed handshake, and the handshakes that fail
ShellV2Calls ==
    { [name |-> "_shell_v2", cmdargs |-> CmdArgs, pre |-> Okay \o Ack8 \o Okay, ver |-> Ver41,
       frames |-> fs \o e, cut |-> x] : fs \in FrameSeqs, e \in Endings, x \in Cuts }
    \cup
    { [name |-> "_shell_v2", cmdargs |-> CmdArgs, pre |-> p, ver |-> v, frames |-> <<>>, cut |-> <<>>] :
        p \in { Okay \o Ack8 \o Fail \o Block(B("closed")), Okay \o Ack8 \o <<TIMEOUT>>,
                Fail \o BlkNoDevice, Okay \o Okay },
        v \in { Ver41, Ver40, <<TIMEOUT>> } }

InitShellV2 ==
    /\ call \in ShellV2Calls
    /\ script = <<call.pre \o EncodeFrames(call.frames) \o call.cut, call.ver>>
    /\ features = <<>>
    /\ dev = [_serial |-> Serial, _transport_id |-> 0, _features |-> {}]
    /\ conns = <<>>
    /\ ret = NoRet
    /\ pc = "ready"
    /\ ncalls = 0
    /\ TrackIdle
    /\ HostIdle

ShellV2 ==
    /\ pc = "ready"
    /\ call.name = "_shell_v2"
    /\ Done(_shell_v2(World, call.cmdargs))
    /\ UNCHANGED <<call, features, trackVars, hostVars>>

SpecShellV2 == InitShellV2 /\ [][ShellV2]_vars

-----------------------------------------------------------------------------
(* BaseDevice.open_shell, shell and _shell_v1 *)

CmdShell == B("shell:")
MAGIC == B("X4EXIT:")
EchoMagic == B("; echo X4EXIT:$?")
MsgShellInvalid == B("shell output invalid")

open_shell(w, cmdargs) ==
    Bind(open_transport(w, <<>>), LAMBDA o :
        IF o.exc # "none" THEN o ELSE SendCheck(o.w, o.v, CmdShell \o cmdargs))

\* shell with the try/finally around read_until_close left out
shell_unclosed(w, cmdargs, stream, encoding, do_rstrip) ==
    Bind(open_shell(w, cmdargs), LAMBDA o :
        IF o.exc # "none" \/ stream THEN o
        ELSE Bind(read_until_close(o.w.conns[o.v], <<>>), LAMBDA r :
                 WR([o.w EXCEPT !.conns[o.v] = r.c], r.exc,
                    IF r.exc # "none" \/ ~encoding THEN r.v
                    ELSE IF do_rstrip THEN rstrip(Decode(r.v)) ELSE Decode(r.v))))

\* shell(cmdargs, stream, encoding, rstrip); encoding is TRUE for "utf-8" and
\* FALSE for None.  stream=True returns the connection of open_shell as it
\* is; otherwise the output is read until the peer closes, the try/finally
\* closes the connection, and the output is decoded and stripped.
shell(w, cmdargs, stream, encoding, do_rstrip) ==
    Bind(open_shell(w, cmdargs), LAMBDA o :
        IF o.exc # "none" \/ stream THEN o
        ELSE Bind(read_until_close(o.w.conns[o.v], <<>>), LAMBDA r :
                 WR([o.w EXCEPT !.conns[o.v] = close(r.c)], r.exc,
                    IF r.exc # "none" \/ ~encoding THEN r.v
                    ELSE IF do_rstrip THEN rstrip(Decode(r.v)) ELSE Decode(r.v))))

\* rfind replaced by bytes.find: the lowest index where sub occurs, or -1
find(s, sub) ==
    LET at == {i \in 0..(Len(s) - Len(sub)) : SubSeq(s, i + 1, i + Len(sub)) = sub}
    IN  IF at = {} THEN 0 - 1 ELSE CHOOSE i \in at : \A j \in at : i <= j

\* bytes.rfind(sub): the highest 0-based index where sub occurs, or -1
rfind(s, sub) ==
    LET at == {i \in 0..(Len(s) - Len(sub)) : SubSeq(s, i + 1, i + Len(sub)) = sub}
    IN  IF at = {} THEN 0 - 1 ELSE CHOOSE i \in at : \A j \in at : j <= i

_shell_v1(w, cmdargs) ==
    Bind(shell(w, cmdargs \o EchoMagic, FALSE, FALSE, TRUE), LAMBDA sh :
        IF sh.exc # "none" THEN sh
        ELSE Bind(rfind(sh.v, MAGIC), LAMBDA rindex :
        IF rindex = 0 - 1 THEN WR(sh.w, "AdbError", MsgShellInvalid)
        ELSE Bind(int(Drop(sh.v, rindex + Len(MAGIC)), 10), LAMBDA returncode :
        IF ~returncode.ok THEN WR(sh.w, "ValueError", Drop(sh.v, rindex + Len(MAGIC)))
        ELSE WR(sh.w, "none",
                [command |-> cmdargs, returncode |-> returncode.n, output |-> Take(sh.v, rindex),
                 stderr |-> <<>>, stdout |-> <<>>]))))

\* what the captured output is built from: text, the sentinel, a piece of
\* the sentinel, digits, a newline
Pieces == { B("hi"), MAGIC, B("X4EX"), B("0"), B("17"), B("\n") }

RECURSIVE Flatten(_)
Flatten(ss) == IF ss = <<>> THEN <<>> ELSE Head(ss) \o Flatten(Tail(ss))

PieceSeqs == UNION {[1..n -> Pieces] : n \in 0..MaxPieces}

ShellV1Calls ==
    { [name |-> "_shell_v1", cmdargs |-> CmdArgs, pre |-> Okay \o Ack8 \o Okay, ver |-> Ver41,
       pieces |-> ps, cut |-> x] : ps \in PieceSeqs, x \in {<<>>, <<TIMEOUT>>} }
    \cup
    { [name |-> "_shell_v1", cmdargs |-> CmdArgs, pre |-> p, ver |-> v, pieces |-> <<>>, cut |-> <<>>] :
        p \in { Okay \o Ack8 \o Fail \o Block(B("closed")), Fail \o BlkNoDevice, Okay \o Okay },
        v \in { Ver41, Ver40 } }

InitShellV1 ==
    /\ call \in ShellV1Calls
    /\ script = <<call.pre \o Flatten(call.pieces) \o call.cut, call.ver>>
    /\ features = <<>>
    /\ dev = [_serial |-> Serial, _transport_id |-> 0, _features |-> {}]
    /\ conns = <<>>
    /\ ret = NoRet
    /\ pc = "ready"
    /\ ncalls = 0
    /\ TrackIdle
    /\ HostIdle

ShellV1 ==
    /\ pc = "ready"
    /\ call.name = "_shell_v1"
    /\ Done(_shell_v1(World, call.cmdargs))
    /\ UNCHANGED <<call, features, trackVars, hostVars>>

SpecShellV1 == InitShellV1 /\ [][ShellV1]_vars

-----------------------------------------------------------------------------
(* BaseDevice.shell on its own *)

\* what the command writes: text, whitespace, a byte that is no UTF-8
OutPieces == { B("hi"), B("\n"), B(" "), <<255>> }

OutSeqs == UNION {[1..n -> OutPieces] : n \in 0..MaxOut}

\* a shell conversation behind a passed handshake: the output, and whether
\* the peer then closes (cut empty) or stays silent past the timeout; and
\* the handshakes that fail
ShellCalls ==
    { [name |-> "shell", cmdargs |-> CmdArgs, stream |-> st, encoding |-> en, rstrip |-> rs,
       pre |-> Okay \o Ack8 \o Okay, ver |-> Ver41, pieces |-> ps, cut |-> x] :
        st \in BOOLEAN, en \in BOOLEAN, rs \in BOOLEAN, ps \in OutSeqs, x \in {<<>>, <<TIMEOUT>>} }
    \cup
    { [name |-> "shell", cmdargs |-> CmdArgs, stream |-> st, encoding |-> TRUE, rstrip |-> TRUE,
       pre |-> p, ver |-> Ver41, pieces |-> <<>>, cut |-> <<>>] :
        st \in BOOLEAN,
        p \in { Okay \o Ack8 \o Fail \o Block(B("closed")), Fail \o BlkNoDevice,
                Okay \o Ack8 \o <<TIMEOUT>> } }

InitShell ==
    /\ call \in ShellCalls
    /\ script = <<call.pre \o Flatten(call.pieces) \o call.cut, call.ver>>
    /\ features = <<>>
    /\ dev = [_serial |-> Serial, _transport_id |-> 0, _features |-> {}]
    /\ conns = <<>>
    /\ ret = NoRet
    /\ pc = "ready"
    /\ ncalls = 0
    /\ TrackIdle
    /\ HostIdle

Shell ==
    /\ pc = "ready"
    /\ call.name = "shell"
    /\ Done(shell(World, call.cmdargs, call.stream, call.encoding, call.rstrip))
    /\ UNCHANGED <<call, features, trackVars, hostVars>>

SpecShell == InitShell /\ [][Shell]_vars

-----------------------------------------------------------------------------
(* BaseDevice.get_features and shell2 *)

CmdFeatures == B("features")
ShellV2Feature == B("shell_v2")
Comma == 44

\* str.split(sep) with a one character separator
RECURSIVE split(_, _)
split(s, sep) ==
    LET at == {i \in 1..Len(s) : s[i] = sep}
        k == CHOOSE i \in at : \A j \in at : i <= j
    IN  IF at = {} THEN <<s>> ELSE <<SubSeq(s, 1, k - 1)>> \o split(Drop(s, k), sep)

ToSet(seq) == {seq[i] : i \in 1..Len(seq)}

\* _get_with_command: the with block closes the connection once open_transport
\* has returned it
_get_with_command(w, cmd) ==
    Bind(open_transport(w, cmd), LAMBDA o :
        IF o.exc # "none" THEN o
        ELSE Bind(read_string_block(o.w.conns[o.v]), LAMBDA b :
                 WR([o.w EXCEPT !.conns[o.v] = close(b.c)], b.exc, b.v)))

get_features(w) ==
    Bind(_get_with_command(w, CmdFeatures), LAMBDA g :
        IF g.exc # "none" THEN g
        ELSE WR([g.w EXCEPT !.dev._features = ToSet(split(g.v, Comma))], "none", g.v))

\* ShellReturn from ShellReturnRaw: decode("utf-8", errors="replace"), then rstrip
Decoded(raw, do_rstrip) ==
    LET f(x) == IF do_rstrip THEN rstrip(Decode(x)) ELSE Decode(x)
    IN  [command |-> raw.command, returncode |-> raw.returncode, output |-> f(raw.output),
         stderr |-> f(raw.stderr), stdout |-> f(raw.stdout)]

\* shell2 without the test of "shell_v2" against the fetched features
shell2_ungated(w, cmdargs, do_rstrip, v2) ==
    Bind(IF v2 /\ w.dev._features = {} THEN get_features(w) ELSE WR(w, "skipped", <<>>), LAMBDA g :
        IF g.exc \notin {"none", "skipped"} THEN g
        ELSE Bind(IF g.exc = "skipped" THEN w
                  ELSE [g.w EXCEPT !.dev._features = ToSet(split(g.v, Comma))], LAMBDA w1 :
             Bind(IF v2 THEN _shell_v2(w1, cmdargs) ELSE _shell_v1(w1, cmdargs), LAMBDA result :
                 IF result.exc # "none" THEN result
                 ELSE WR(result.w, "none", Decoded(result.v, do_rstrip)))))

\* shell2(cmdargs, encoding="utf-8", rstrip, v2)
\* (g is "skipped" when get_features is not called)
shell2(w, cmdargs, do_rstrip, v2) ==
    Bind(IF v2 /\ w.dev._features = {} THEN get_features(w) ELSE WR(w, "skipped", <<>>), LAMBDA g :
        IF g.exc \notin {"none", "skipped"} THEN g
        ELSE Bind(IF g.exc = "skipped" THEN w
                  ELSE [g.w EXCEPT !.dev._features = ToSet(split(g.v, Comma))], LAMBDA w1 :
             Bind(IF v2 /\ ShellV2Feature \in w1.dev._features
                  THEN _shell_v2(w1, cmdargs) ELSE _shell_v1(w1, cmdargs), LAMBDA result :
                 IF result.exc # "none" THEN result
                 ELSE WR(result.w, "none", Decoded(result.v, do_rstrip)))))

\* feature lists a device may have
FeatureLists == { B("cmd,shell_v2,abb"), B("shell_v2"), B("cmd,abb"), B("shell_v2x,cmd"), <<>> }

\* answers to host-serial:<serial>:features for a device with feature list fl
FeatureStreams(fl) == { Okay \o Block(fl), Fail \o BlkNoDevice, <<TIMEOUT>> }

\* answers on the device connection of a shell: a v1 conversation, a v2
\* conversation, and failures of the handshake
ShellStreams ==
    { Okay \o Ack8 \o Okay \o B("/\n") \o MAGIC \o B("0\n"),
      Okay \o Ack8 \o Okay \o MAGIC \o B("1\n"),
      Okay \o Ack8 \o Okay \o EncodeFrames(<<Frame(1, B("/\n")), Frame(3, <<0>>)>>),
      Okay \o Ack8 \o Okay \o EncodeFrames(<<Frame(2, B("e")), Frame(3, <<1>>)>>),
      Okay \o Ack8 \o Fail \o Block(B("closed")),
      Fail \o BlkNoDevice }

FeatureSet(fl) == ToSet(split(fl, Comma))

InitShell2 ==
    /\ call = [name |-> "none"]
    /\ script = <<>>
    /\ features \in FeatureLists
    /\ dev = [_serial |-> Serial, _transport_id |-> 0, _features |-> {}]
    /\ conns = <<>>
    /\ ret = NoRet
    /\ pc = "ready"
    /\ ncalls = 0
    /\ TrackIdle
    /\ HostIdle

\* one shell2 call; the connections it makes are served in creation order
Shell2 ==
    /\ ncalls < MaxCalls
    /\ \E v2 \in BOOLEAN, do_rstrip \in BOOLEAN, f \in FeatureStreams(features), d \in ShellStreams :
          LET scr == IF v2 /\ dev._features = {} THEN <<f, d, Ver41>> ELSE <<d, Ver41>>
          IN  /\ call' = [name |-> "shell2", cmdargs |-> CmdArgs, rstrip |-> do_rstrip, v2 |-> v2]
              /\ Done(shell2([conns |-> <<>>, script |-> scr, dev |-> dev], CmdArgs, do_rstrip, v2))
    /\ UNCHANGED <<features, trackVars, hostVars>>

\* one get_features call by the user of the device object
GetFeatures ==
    /\ ncalls < MaxCalls
    /\ \E f \in FeatureStreams(features) :
          /\ call' = [name |-> "get_features"]
          /\ Done(get_features([conns |-> <<>>, script |-> <<f>>, dev |-> dev]))
    /\ UNCHANGED <<features, trackVars, hostVars>>

NextShell2 == Shell2 \/ GetFeatures

SpecShell2 == InitShell2 /\ [][NextShell2]_vars

-----------------------------------------------------------------------------
(* Text tables: str.splitlines and str.split *)

\* the line boundaries of str.splitlines
LineBreaks == {10, 11, 12, 13, 28, 29, 30, 133, 8232, 8233}

RECURSIVE splitlines(_)
splitlines(s) ==
    LET at == {i \in 1..Len(s) : s[i] \in LineBreaks}
        k == CHOOSE i \in at : \A j \in at : i <= j
        end == IF s[k] = 13 /\ k < Len(s) /\ s[k + 1] = 10 THEN k + 1 ELSE k
    IN  IF s = <<>> THEN <<>>
        ELSE IF at = {} THEN <<s>>
        ELSE <<SubSeq(s, 1, k - 1)>> \o splitlines(Drop(s, end))

\* str.split() without a separator: the runs of non-whitespace
RECURSIVE split_ws(_)
split_ws(s) ==
    LET t == lstrip(s)
        at == {i \in 1..Len(t) : IsSpace(t[i])}
        k == IF at = {} THEN Len(t) + 1 ELSE CHOOSE i \in at : \A j \in at : i <= j
    IN  IF t = <<>> THEN <<>> ELSE <<SubSeq(t, 1, k - 1)>> \o split_ws(Drop(t, k - 1))

-----------------------------------------------------------------------------
(* BaseDevice.reverse_list *)

CmdReverseList == B("reverse:list-forward")

ReverseItem(remote, local) == [remote |-> remote, local |-> local]

\* the for loop over the lines: it only assigns the loop variable parts
\* (bound = FALSE while parts has never been assigned)
RECURSIVE ForLines(_, _)
ForLines(lines, st) ==
    IF lines = <<>> THEN st
    ELSE ForLines(Tail(lines), [bound |-> TRUE, parts |-> split_ws(Head(lines))])

\* the statements after read_string_block: the loop, then one
\* items.append(ReverseItem(*parts[1:])) after the loop
ReverseItems(content) ==
    LET st == ForLines(splitlines(content), [bound |-> FALSE, parts |-> <<>>])
        args == Tail(st.parts)
    IN  IF ~st.bound THEN [exc |-> "UnboundLocalError", v |-> <<>>]
        ELSE IF st.parts = <<>> THEN [exc |-> "TypeError", v |-> <<>>]
        ELSE IF Len(args) # 2 THEN [exc |-> "TypeError", v |-> <<>>]
        ELSE [exc |-> "none", v |-> <<ReverseItem(args[1], args[2])>>]

\* reverse_list: the with block closes the connection once open_transport has returned it
reverse_list(w) ==
    Bind(open_transport(w, <<>>), LAMBDA o :
        IF o.exc # "none" THEN o
        ELSE Bind(SendCheck(o.w, o.v, CmdReverseList), LAMBDA k :
        IF k.exc # "none" THEN WR([k.w EXCEPT !.conns[o.v] = close(@)], k.exc, k.v)
        ELSE Bind(read_string_block(k.w.conns[o.v]), LAMBDA b :
        IF b.exc # "none" THEN WR([k.w EXCEPT !.conns[o.v] = close(b.c)], b.exc, b.v)
        ELSE Bind(ReverseItems(b.v), LAMBDA items :
                 WR([k.w EXCEPT !.conns[o.v] = close(b.c)], items.exc, items.v)))))

\* lines of a table body, each with the fields it is made of
TableLine(text, fields) == [text |-> text, fields |-> fields]

TableLines ==
    { TableLine(B("(reverse) tcp:1 tcp:2"), <<B("(reverse)"), B("tcp:1"), B("tcp:2")>>),
      TableLine(B("UsbFfs  localabstract:a\ttcp:9 "), <<B("UsbFfs"), B("localabstract:a"), B("tcp:9")>>),
      TableLine(B("invalid line"), <<B("invalid"), B("line")>>),
      TableLine(B("another"), <<B("another")>>),
      TableLine(B("a b c d"), <<B("a"), B("b"), B("c"), B("d")>>),
      TableLine(<<>>, <<>>) }

Newline == B("\n")

RECURSIVE JoinLines(_)
JoinLines(ls) == IF ls = <<>> THEN <<>> ELSE Head(ls).text \o Newline \o JoinLines(Tail(ls))

Tables == UNION {[1..n -> TableLines] : n \in 0..MaxLines}

ReverseListCalls ==
    { [name |-> "reverse_list", lines |-> ls, pre |-> Okay \o Ack8 \o Okay, body |-> Block(JoinLines(ls))] :
        ls \in Tables }
    \cup
    { [name |-> "reverse_list", lines |-> <<>>, pre |-> p, body |-> <<>>] :
        p \in { Okay \o Ack8 \o Fail \o Block(B("closed")), Fail \o BlkNoDevice,
                Okay \o Ack8 \o Okay \o <<TIMEOUT>>, Okay \o Ack8 \o Okay } }

InitReverseList ==
    /\ call \in ReverseListCalls
    /\ script = <<call.pre \o call.body, Ver41>>
    /\ features = <<>>
    /\ dev = [_serial |-> Serial, _transport_id |-> 0, _features |-> {}]
    /\ conns = <<>>
    /\ ret = NoRet
    /\ pc = "ready"
    /\ ncalls = 0
    /\ TrackIdle
    /\ HostIdle

ReverseList ==
    /\ pc = "ready"
    /\ call.name = "reverse_list"
    /\ Done(reverse_list(World))
    /\ UNCHANGED <<call, features, trackVars, hostVars>>

SpecReverseList == InitReverseList /\ [][ReverseList]_vars

-----------------------------------------------------------------------------
(* BaseClient.track_devices, _output2devices and _diff_devices *)

CmdTrackDevices == B("host:track-devices")
Tab == 9
Absent == B("absent")

\* the frozen dataclass DeviceEvent; present is "None", TRUE or FALSE
DeviceEvent(present, serial, status) == [present |-> present, serial |-> serial, status |-> status]

\* str.split("\t", maxsplit=1)
split_tab1(s) ==
    LET at == {i \in 1..Len(s) : s[i] = Tab}
        k == CHOOSE i \in at : \A j \in at : i <= j
    IN  IF at = {} THEN <<s>> ELSE <<SubSeq(s, 1, k - 1), Drop(s, k)>>

RECURSIVE LinesToDevices(_)
LinesToDevices(lines) ==
    LET fields == split_tab1(strip(Head(lines)))
    IN  IF lines = <<>> THEN <<>>
        ELSE IF Len(fields) # 2 THEN LinesToDevices(Tail(lines))
        ELSE <<DeviceEvent("None", fields[1], fields[2])>> \o LinesToDevices(Tail(lines))

_output2devices(output) == LinesToDevices(splitlines(output))

\* the sequences that list every element of a finite set once: the orders in
\* which iterating a Python set may visit it
Orders(S) == {q \in [1..Cardinality(S) -> S] : \A i, j \in 1..Cardinality(S) : i # j => q[i] # q[j]}

\* _diff_devices that yields the present events before the absent ones
_diff_devices_present_first(orig, curr) ==
    LET gone == ToSet(orig) \ ToSet(curr)
        come == ToSet(curr) \ ToSet(orig)
    IN  { [i \in 1..Len(b) |-> DeviceEvent(TRUE, b[i].serial, b[i].status)]
            \o [i \in 1..Len(a) |-> DeviceEvent(FALSE, a[i].serial, Absent)] :
          a \in Orders(gone), b \in Orders(come) }

\* _diff_devices: the set differences compare whole DeviceEvent values
\* (serial and status); yields the batches the generator may produce
_diff_devices(orig, curr) ==
    LET gone == ToSet(orig) \ ToSet(curr)
        come == ToSet(curr) \ ToSet(orig)
    IN  { [i \in 1..Len(a) |-> DeviceEvent(FALSE, a[i].serial, Absent)]
            \o [i \in 1..Len(b) |-> DeviceEvent(TRUE, b[i].serial, b[i].status)] :
          a \in Orders(gone), b \in Orders(come) }

\* the devices the server may report: a status for some of the serials
Serials == <<B("S1"), B("S2")>>
Statuses == {B("device"), B("offline")}
Gone == <<>>

Snapshots == [1..Len(Serials) -> Statuses \cup {Gone}]

\* the server's text of a snapshot: serial TAB status NEWLINE per device
RECURSIVE SnapshotText(_, _)
SnapshotText(m, i) ==
    IF i > Len(Serials) THEN <<>>
    ELSE (IF m[i] = Gone THEN <<>> ELSE Serials[i] \o <<Tab>> \o m[i] \o Newline) \o SnapshotText(m, i + 1)

NoDevices == [i \in 1..Len(Serials) |-> Gone]

InitTrack ==
    /\ call = [name |-> "track_devices", prev |-> NoDevices, cur |-> NoDevices]
    /\ script \in {<<Okay>>, <<Fail \o Block(B("unknown host service"))>>, <<<<>>>>}
    /\ features = <<>>
    /\ dev = [_serial |-> <<>>, _transport_id |-> 0, _features |-> {}]
    /\ conns = <<>>
    /\ ret = NoRet
    /\ pc = "ready"
    /\ ncalls = 0
    /\ TrackIdle
    /\ HostIdle

\* the generator up to its loop: make_connection, host:track-devices, check_okay;
\* an exception leaves the with block, which closes the connection
TrackStart ==
    /\ pc = "ready"
    /\ call.name = "track_devices"
    /\ LET m == make_connection(World)
           k == SendCheck(m.w, m.v, CmdTrackDevices)
       IN  /\ conns' = IF k.exc = "none" THEN k.w.conns ELSE [k.w.conns EXCEPT ![m.v] = close(@)]
           /\ script' = k.w.script
           /\ ret' = [exc |-> k.exc, v |-> IF k.exc = "none" THEN <<>> ELSE k.v]
           /\ pc' = IF k.exc = "none" THEN "tracking" ELSE "done"
    /\ orig_devices' = <<>>
    /\ UNCHANGED <<call, features, dev, ncalls, events, nsnap, hostVars>>

\* one turn of the loop: the server sends the snapshot m, the generator reads
\* the block, parses it, yields the events of the difference and keeps the
\* snapshot as orig_devices
TrackRead(m) ==
    /\ pc = "tracking"
    /\ nsnap < MaxSnapshots
    /\ LET c == [conns[1] EXCEPT !.inbuf = @ \o Block(SnapshotText(m, 1))]
           b == read_string_block(c)
           curr_devices == _output2devices(b.v)
       IN  /\ b.exc = "none"
           /\ conns' = [conns EXCEPT ![1] = b.c]
           /\ \E evs \in _diff_devices(orig_devices, curr_devices) : events' = evs
           /\ orig_devices' = curr_devices
    /\ call' = [call EXCEPT !.prev = call.cur, !.cur = m]
    /\ nsnap' = nsnap + 1
    /\ UNCHANGED <<script, features, dev, ret, pc, ncalls, hostVars>>

NextTrack == TrackStart \/ \E m \in Snapshots : TrackRead(m)

SpecTrack == InitTrack /\ [][NextTrack]_vars

-----------------------------------------------------------------------------
(* Sync (sync.py).  A FileInfo is [mode, size, mtime, path]; mtime is None  *)
(* or <<t>> for the datetime of the timestamp t.                            *)

CmdSync == B("sync:")

STAT == B("STAT")
LIST == B("LIST")
SEND == B("SEND")
RECV == B("RECV")
DONE == B("DONE")
DATA == B("DATA")
DENT == B("DENT")

S_IFDIR == 16384
S_IFREG == 32768

None == <<>>

FileInfo(mode, size, mtime, path) == [mode |-> mode, size |-> size, mtime |-> mtime, path |-> path]

\* mode & bit != 0 for a bit that is a power of two
HasBit(mode, bit) == (mode \div bit) % 2 = 1

\* struct.unpack("<I", ...) of the four bytes of d from position i
U32(d, i) == FromBytesLittle(SubSeq(d, i, i + 3))

\* leaving a with block with the connection still open
LeaveOpen(r, i) == r

\* the exit of a with block on connection i with the outcome r
Leave(r, i) == WR([r.w EXCEPT !.conns[i] = close(@)], r.exc, r.v)

\* _prepare_sync up to its yield: yields the index of the connection, which
\* has the sync: handshake behind it and the request header written.  An
\* exception inside the with block closes the connection.
_prepare_sync(w, path, cmd) ==
    Bind(open_transport(w, <<>>), LAMBDA o :
        IF o.exc # "none" THEN o
        ELSE Bind(SendCheck(o.w, o.v, CmdSync), LAMBDA k :
        IF k.exc # "none" THEN Leave(k, o.v)
        ELSE Bind(On(k.w, o.v, conn_send(k.w.conns[o.v], cmd \o ToBytesLittle4(Len(path)) \o path)),
                  LAMBDA s :
        IF s.exc # "none" THEN Leave(s, o.v) ELSE WR(s.w, "none", o.v))))

\* Sync.stat with mtime 0 turned into the datetime of the epoch
stat_epoch(w, path) ==
    Bind(_prepare_sync(w, path, STAT), LAMBDA p :
        IF p.exc # "none" THEN p
        ELSE Bind(On(p.w, p.v, read_string(p.w.conns[p.v], 4)), LAMBDA r :
        IF r.exc # "none" THEN Leave(r, p.v)
        ELSE IF r.v # STAT THEN Leave(WR(r.w, "AssertionError", r.v), p.v)
        ELSE Bind(On(r.w, p.v, conn_recv(r.w.conns[p.v], 12)), LAMBDA d :
        IF d.exc # "none" THEN Leave(d, p.v)
        ELSE IF Len(d.v) # 12 THEN Leave(WR(d.w, "struct.error", d.v), p.v)
        ELSE Leave(WR(d.w, "none", FileInfo(U32(d.v, 1), U32(d.v, 5), <<U32(d.v, 9)>>, path)), p.v))))

\* Sync.stat: the assert on the reply id, one recv of 12 bytes, unpack
stat(w, path) ==
    Bind(_prepare_sync(w, path, STAT), LAMBDA p :
        IF p.exc # "none" THEN p
        ELSE Bind(On(p.w, p.v, read_string(p.w.conns[p.v], 4)), LAMBDA r :
        IF r.exc # "none" THEN Leave(r, p.v)
        ELSE IF r.v # STAT THEN Leave(WR(r.w, "AssertionError", r.v), p.v)
        ELSE Bind(On(r.w, p.v, conn_recv(r.w.conns[p.v], 12)), LAMBDA d :
        IF d.exc # "none" THEN Leave(d, p.v)
        ELSE IF Len(d.v) # 12 THEN Leave(WR(d.w, "struct.error", d.v), p.v)
        ELSE Leave(WR(d.w, "none",
                      FileInfo(U32(d.v, 1), U32(d.v, 5),
                               IF U32(d.v, 9) # 0 THEN <<U32(d.v, 9)>> ELSE None, path)), p.v))))

exists(w, path) ==
    Bind(stat(w, path), LAMBDA finfo :
        IF finfo.exc # "none" THEN finfo ELSE WR(finfo.w, "none", finfo.v.mtime # None))

\* the server's answer to a STAT request
StatReply(mode, size, mtime) ==
    STAT \o ToBytesLittle4(mode) \o ToBytesLittle4(size) \o ToBytesLittle4(mtime)

\* the handshake of a sync session that passes: tport, its 8 bytes, sync:
SyncOkay == Okay \o Ack8 \o Okay

\* mode 0 (no such path), a regular file, a directory, a symbolic link;
\* sizes and times stay below 2^31, the largest integer of the checker
Modes == {0, 33188, 16877, 41471}
Sizes == {0, 5, 2147483647}
Mtimes == {0, 1, 1712500000, 2147483647}
RemotePaths == {B("/sdcard/f"), B("/nope")}

StatCalls ==
    { [name |-> n, path |-> p, mode |-> m, size |-> sz, mtime |-> t, pre |-> SyncOkay,
       reply |-> StatReply(m, sz, t)] :
        n \in {"stat", "exists"}, p \in RemotePaths, m \in Modes, sz \in Sizes, t \in Mtimes }
    \cup
    { [name |-> n, path |-> B("/sdcard/f"), mode |-> 0, size |-> 0, mtime |-> 0, pre |-> x.pre,
       reply |-> x.reply] :
        n \in {"stat", "exists"},
        x \in { [pre |-> Fail \o BlkNoDevice, reply |-> <<>>],
                [pre |-> Okay \o Ack8 \o Fail \o Block(B("closed")), reply |-> <<>>],
                [pre |-> SyncOkay, reply |-> <<>>],
                [pre |-> SyncOkay, reply |-> STAT \o <<1, 0, 0, 0, 5>>],
                [pre |-> SyncOkay, reply |-> Fail \o ToBytesLittle4(2) \o B("no")],
                [pre |-> SyncOkay, reply |-> STAT \o <<TIMEOUT>>] } }

SerialDevice == [_serial |-> Serial, _transport_id |-> 0, _features |-> {}]

InitStat ==
    /\ call \in StatCalls
    /\ script = <<call.pre \o call.reply, Ver41>>
    /\ features = <<>>
    /\ dev = SerialDevice
    /\ conns = <<>>
    /\ ret = NoRet
    /\ pc = "ready"
    /\ ncalls = 0
    /\ TrackIdle
    /\ HostIdle

Stat ==
    /\ pc = "ready"
    /\ call.name = "stat"
    /\ Done(stat(World, call.path))
    /\ UNCHANGED <<call, features, trackVars, hostVars>>

Exists ==
    /\ pc = "ready"
    /\ call.name = "exists"
    /\ Done(exists(World, call.path))
    /\ UNCHANGED <<call, features, trackVars, hostVars>>

NextStat == Stat \/ Exists

SpecStat == InitStat /\ [][NextStat]_vars

-----------------------------------------------------------------------------
(* Sync.iter_content and read_bytes.  The generator is run to its end; its  *)
(* value is [chunks, msg]: the chunks it yielded, in order, and the message *)
(* of the exception that ended it.                                          *)

MsgChunkMissing == B("read chunk missing")
MsgInvalidSyncCmd == B("Invalid sync cmd")

Yielded(chunks, msg) == [chunks |-> chunks, msg |-> msg]

\* the loop of iter_content with every opcode but FAIL and DATA ending it
RECURSIVE ContentLoopLenient(_, _)
ContentLoopLenient(c, chunks) ==
    Bind(read_string(c, 4), LAMBDA cmd :
        IF cmd.exc # "none" THEN R(cmd.c, cmd.exc, Yielded(chunks, cmd.v))
        ELSE IF cmd.v = Fail
        THEN Bind(read(cmd.c, 4), LAMBDA sz :
                 IF sz.exc # "none" THEN R(sz.c, sz.exc, Yielded(chunks, sz.v))
                 ELSE IF Len(sz.v) # 4 THEN R(sz.c, "struct.error", Yielded(chunks, sz.v))
                 ELSE Bind(read_string(sz.c, U32(sz.v, 1)), LAMBDA m :
                          IF m.exc # "none" THEN R(m.c, m.exc, Yielded(chunks, m.v))
                          ELSE R(m.c, "AdbError", Yielded(chunks, m.v))))
        ELSE IF cmd.v = DATA
        THEN Bind(read(cmd.c, 4), LAMBDA sz :
                 IF sz.exc # "none" THEN R(sz.c, sz.exc, Yielded(chunks, sz.v))
                 ELSE IF Len(sz.v) # 4 THEN R(sz.c, "struct.error", Yielded(chunks, sz.v))
                 ELSE Bind(read(sz.c, U32(sz.v, 1)), LAMBDA chunk :
                          IF chunk.exc # "none" THEN R(chunk.c, chunk.exc, Yielded(chunks, chunk.v))
                          ELSE IF Len(chunk.v) # U32(sz.v, 1)
                          THEN R(chunk.c, "AdbError", Yielded(chunks, MsgChunkMissing))
                          ELSE ContentLoopLenient(chunk.c, Append(chunks, chunk.v))))
        ELSE R(cmd.c, "none", Yielded(chunks, <<>>)))

\* the while True loop of iter_content on connection c
RECURSIVE ContentLoop(_, _)
ContentLoop(c, chunks) ==
    Bind(read_string(c, 4), LAMBDA cmd :
        IF cmd.exc # "none" THEN R(cmd.c, cmd.exc, Yielded(chunks, cmd.v))
        ELSE IF cmd.v = Fail
        THEN Bind(read(cmd.c, 4), LAMBDA sz :
                 IF sz.exc # "none" THEN R(sz.c, sz.exc, Yielded(chunks, sz.v))
                 ELSE IF Len(sz.v) # 4 THEN R(sz.c, "struct.error", Yielded(chunks, sz.v))
                 ELSE Bind(read_string(sz.c, U32(sz.v, 1)), LAMBDA m :
                          IF m.exc # "none" THEN R(m.c, m.exc, Yielded(chunks, m.v))
                          ELSE R(m.c, "AdbError", Yielded(chunks, m.v))))
        ELSE IF cmd.v = DONE THEN R(cmd.c, "none", Yielded(chunks, <<>>))
        ELSE IF cmd.v = DATA
        THEN Bind(read(cmd.c, 4), LAMBDA sz :
                 IF sz.exc # "none" THEN R(sz.c, sz.exc, Yielded(chunks, sz.v))
                 ELSE IF Len(sz.v) # 4 THEN R(sz.c, "struct.error", Yielded(chunks, sz.v))
                 ELSE Bind(read(sz.c, U32(sz.v, 1)), LAMBDA chunk :
                          IF chunk.exc # "none" THEN R(chunk.c, chunk.exc, Yielded(chunks, chunk.v))
                          ELSE IF Len(chunk.v) # U32(sz.v, 1)
                          THEN R(chunk.c, "AdbError", Yielded(chunks, MsgChunkMissing))
                          ELSE ContentLoop(chunk.c, Append(chunks, chunk.v))))
        ELSE R(cmd.c, "AdbError", Yielded(chunks, MsgInvalidSyncCmd)))

\* iter_content(path), consumed to its end; the with block closes the session
iter_content(w, path) ==
    Bind(_prepare_sync(w, path, RECV), LAMBDA p :
        IF p.exc # "none" THEN WR(p.w, p.exc, Yielded(<<>>, p.v))
        ELSE Leave(On(p.w, p.v, ContentLoop(p.w.conns[p.v], <<>>)), p.v))

\* read_bytes: b''.join(self.iter_content(path))
read_bytes(w, path) ==
    Bind(iter_content(w, path), LAMBDA it :
        IF it.exc # "none" THEN WR(it.w, it.exc, it.v.msg)
        ELSE WR(it.w, "none", Flatten(it.v.chunks)))

\* the server's DATA frame for a payload
DataFrame(payload) == DATA \o ToBytesLittle4(Len(payload)) \o payload

RECURSIVE DataFrameBytes(_)
DataFrameBytes(ps) == IF ps = <<>> THEN <<>> ELSE DataFrame(Head(ps)) \o DataFrameBytes(Tail(ps))

RecvPayloads == { B("ab"), B("c"), <<>> }

RecvPayloadSeqs == UNION {[1..n -> RecvPayloads] : n \in 0..MaxFrames}

\* how a RECV answer ends after its whole DATA frames
RecvEndings ==
    { [kind |-> "done", bytes |-> DONE \o ToBytesLittle4(0)],
      [kind |-> "done", bytes |-> DONE],
      [kind |-> "done", bytes |-> DONE \o ToBytesLittle4(0) \o DataFrame(B("zz"))],
      [kind |-> "fail", bytes |-> Fail \o ToBytesLittle4(7) \o B("No file")],
      [kind |-> "short", bytes |-> DATA \o ToBytesLittle4(3) \o B("x")],
      [kind |-> "other", bytes |-> <<>>],
      [kind |-> "other", bytes |-> DENT \o ToBytesLittle4(0)],
      [kind |-> "other", bytes |-> B("DA")],
      [kind |-> "other", bytes |-> DATA \o <<2, 0>>],
      [kind |-> "other", bytes |-> Fail \o <<2>>],
      [kind |-> "other", bytes |-> <<TIMEOUT>>] }

ContentCalls ==
    { [name |-> n, path |-> B("/sdcard/f"), pre |-> SyncOkay, payloads |-> ps, ending |-> e] :
        n \in {"iter_content", "read_bytes"}, ps \in RecvPayloadSeqs, e \in RecvEndings }
    \cup
    { [name |-> n, path |-> B("/sdcard/f"), pre |-> p, payloads |-> <<>>,
       ending |-> [kind |-> "other", bytes |-> <<>>]] :
        n \in {"iter_content", "read_bytes"},
        p \in { Fail \o BlkNoDevice, Okay \o Ack8 \o Fail \o Block(B("closed")) } }

InitContent ==
    /\ call \in ContentCalls
    /\ script = <<call.pre \o DataFrameBytes(call.payloads) \o call.ending.bytes, Ver41>>
    /\ features = <<>>
    /\ dev = SerialDevice
    /\ conns = <<>>
    /\ ret = NoRet
    /\ pc = "ready"
    /\ ncalls = 0
    /\ TrackIdle
    /\ HostIdle

IterContent ==
    /\ pc = "ready"
    /\ call.name = "iter_content"
    /\ Done(iter_content(World, call.path))
    /\ UNCHANGED <<call, features, trackVars, hostVars>>

ReadBytes ==
    /\ pc = "ready"
    /\ call.name = "read_bytes"
    /\ Done(read_bytes(World, call.path))
    /\ UNCHANGED <<call, features, trackVars, hostVars>>

NextContent == IterContent \/ ReadBytes

SpecContent == InitContent /\ [][NextContent]_vars

-----------------------------------------------------------------------------
(* Sync.push and _push_file.  A source is [kind, name, data, maxread]:     *)
(* kind "path" is a str or pathlib.Path naming a local file, "bytes" is    *)
(* bytes or bytearray, "stream" an object with read(), whose read(n) gives *)
(* at most maxread bytes at a time, and "object" anything else.  The local *)
(* file system w.fs is a set of entries [path, kind, data].                 *)

ChunkSize == 4096
Slash == 47

MsgSrcNotPath == B("src should be a file path when dst is a directory")
MsgPushNotComplete == B("Push not complete")

\* a world with the local file system in it
HostWorld == [conns |-> conns, script |-> script, dev |-> dev, fs |-> localfs, handles |-> handles]

\* the variables after a call that may have changed the local file system
DoneHost(r) == Done(r) /\ localfs' = r.w.fs /\ handles' = r.w.handles /\ UNCHANGED <<attempts, thr>>

\* append_path that always puts a '/' between the two
append_path_plain(base, addition) == base \o <<Slash>> \o addition

\* _utils.append_path for a str base
append_path(base, addition) ==
    IF base[Len(base)] # Slash THEN base \o <<Slash>> \o addition ELSE base \o addition

RECURSIVE RStripSlash(_)
RStripSlash(s) == IF s # <<>> /\ s[Len(s)] = Slash THEN RStripSlash(SubSeq(s, 1, Len(s) - 1)) ELSE s

\* pathlib.Path(p).name: the last component, trailing slashes dropped
PathName(p) ==
    LET t == RStripSlash(p)
        at == {i \in 1..Len(t) : t[i] = Slash}
    IN  IF at = {} THEN t ELSE Drop(t, CHOOSE i \in at : \A j \in at : j <= i)

\* a file object on the local file p, as open() returns it
Handle(p) == [path |-> p, closed |-> FALSE]

\* f.close() on the h-th file that was opened; h = 0 stands for an object
\* that is no local file (io.BytesIO, the caller's stream)
CloseHandle(w, h) == IF h = 0 THEN w ELSE [w EXCEPT !.handles[h].closed = TRUE]

CloseFile(r, h) == WR(CloseHandle(r.w, h), r.exc, r.v)

\* open(src, "rb") and io.BytesIO(src): yields the bytes the reads will deliver
OpenSource(w, src) ==
    IF src.kind = "bytes" \/ src.kind = "stream" THEN WR(w, "none", src.data)
    ELSE IF src.kind # "path" THEN WR(w, "TypeError", <<>>)
    ELSE IF \E e \in w.fs : e.path = src.name /\ e.kind = "file"
    THEN WR([w EXCEPT !.handles = Append(@, Handle(src.name))], "none",
            (CHOOSE e \in w.fs : e.path = src.name /\ e.kind = "file").data)
    ELSE IF \E e \in w.fs : e.path = src.name THEN WR(w, "IsADirectoryError", <<>>)
    ELSE WR(w, "FileNotFoundError", <<>>)

\* the send loop that stops after the first chunk
SendLoopFirstChunk(c, data, maxread, now, total) ==
    IF data = <<>>
    THEN Bind(conn_send(c, DONE \o ToBytesLittle4(now)), LAMBDA s : R(s.c, s.exc, total))
    ELSE Bind(conn_send(c, DATA \o ToBytesLittle4(Len(Take(data, maxread)))), LAMBDA h :
         IF h.exc # "none" THEN h
         ELSE Bind(conn_send(h.c, Take(data, maxread)), LAMBDA d :
         IF d.exc # "none" THEN d
         ELSE Bind(conn_send(d.c, DONE \o ToBytesLittle4(now)), LAMBDA s :
                  R(s.c, s.exc, total + Len(Take(data, maxread))))))

\* the send loop with the whole source in one DATA record
RECURSIVE SendLoopOneRecord(_, _, _, _, _)
SendLoopOneRecord(c, data, maxread, now, total) ==
    IF data = <<>>
    THEN Bind(conn_send(c, DONE \o ToBytesLittle4(now)), LAMBDA s : R(s.c, s.exc, total))
    ELSE Bind(conn_send(c, DATA \o ToBytesLittle4(Len(data))), LAMBDA h :
         Bind(conn_send(h.c, data), LAMBDA s :
             SendLoopOneRecord(s.c, <<>>, maxread, now, total + Len(data))))

\* the while True loop of _push_file: r.read(4096), DATA records, then DONE
RECURSIVE SendLoop(_, _, _, _, _)
SendLoop(c, data, maxread, now, total) ==
    IF data = <<>>
    THEN Bind(conn_send(c, DONE \o ToBytesLittle4(now)), LAMBDA s : R(s.c, s.exc, total))
    ELSE Bind(Take(data, Min(ChunkSize, maxread)), LAMBDA chunk :
         Bind(conn_send(c, DATA \o ToBytesLittle4(Len(chunk))), LAMBDA h :
         Bind(conn_send(h.c, chunk), LAMBDA s :
             SendLoop(s.c, Drop(data, Len(chunk)), maxread, now, total + Len(chunk)))))

\* dst + "," + str(stat.S_IFREG | mode), for a mode below 2^16
SendPath(dst, mode) == dst \o B(",") \o DecStr(S_IFREG + (mode % S_IFREG))

\* the file _push_file opened for a src given as a path: the latest handle
SourceHandle(w, src) == IF src.kind = "path" THEN Len(w.handles) ELSE 0

\* _push_file(src, dst, mode, check); now is datetime.now() as a timestamp.
\* The source is opened before the with block of _prepare_sync and closed in
\* the finally clause inside it.
_push_file(w, src, dst, mode, check, now) ==
    Bind(OpenSource(w, src), LAMBDA r :
        IF r.exc # "none" THEN r
        ELSE Bind(_prepare_sync(r.w, SendPath(dst, mode), SEND), LAMBDA p :
        IF p.exc # "none" THEN p
        ELSE Bind(On(p.w, p.v, SendLoop(p.w.conns[p.v], r.v, src.maxread, now, 0)), LAMBDA sl :
        IF sl.exc # "none" THEN Leave(CloseFile(sl, SourceHandle(r.w, src)), p.v)
        ELSE Bind(On(sl.w, p.v, read_string(sl.w.conns[p.v], 4)), LAMBDA status_msg :
        IF status_msg.exc # "none" THEN Leave(CloseFile(status_msg, SourceHandle(r.w, src)), p.v)
        ELSE IF status_msg.v # Okay
        THEN Leave(CloseFile(WR(status_msg.w, "AdbError", status_msg.v), SourceHandle(r.w, src)), p.v)
        ELSE Bind(Leave(CloseFile(WR(status_msg.w, "none", sl.v), SourceHandle(r.w, src)), p.v), LAMBDA sent :
        IF ~check THEN sent
        ELSE Bind(stat(sent.w, dst), LAMBDA finfo :
                 IF finfo.exc # "none" THEN finfo
                 ELSE IF finfo.v.size # sl.v THEN WR(finfo.w, "AdbError", MsgPushNotComplete)
                 ELSE WR(finfo.w, "none", sl.v)))))))

\* push(src, dst, mode, check) for a str dst
push(w, src, dst, mode, check, now) ==
    Bind(stat(w, dst), LAMBDA finfo :
        IF finfo.exc # "none" THEN finfo
        ELSE IF HasBit(finfo.v.mode, S_IFDIR)
        THEN IF src.kind # "path" THEN WR(finfo.w, "AdbSyncError", MsgSrcNotPath)
             ELSE _push_file(finfo.w, src, append_path(dst, PathName(src.name)), mode, check, now)
        ELSE _push_file(finfo.w, src, dst, mode, check, now))

\* the local files and directories there are to push
LocalFiles ==
    { [path |-> B("/tmp/d/f.txt"), kind |-> "file", data |-> B("hello")],
      [path |-> B("f.txt"), kind |-> "file", data |-> B("hi")],
      [path |-> B("/tmp/d"), kind |-> "dir", data |-> <<>>],
      [path |-> B("/tmp"), kind |-> "dir", data |-> <<>>] }

\* sources of push, each with the basename its path has and the bytes there are to send
PushSources ==
    { [kind |-> "path", name |-> B("/tmp/d/f.txt"), data |-> <<>>, maxread |-> ChunkSize,
       base |-> B("f.txt"), bytes |-> B("hello")],
      [kind |-> "path", name |-> B("f.txt"), data |-> <<>>, maxread |-> ChunkSize,
       base |-> B("f.txt"), bytes |-> B("hi")],
      [kind |-> "path", name |-> B("/tmp/d"), data |-> <<>>, maxread |-> ChunkSize,
       base |-> B("d"), bytes |-> <<>>],
      [kind |-> "path", name |-> B("/tmp/missing"), data |-> <<>>, maxread |-> ChunkSize,
       base |-> B("missing"), bytes |-> <<>>],
      [kind |-> "bytes", name |-> <<>>, data |-> B("hello"), maxread |-> ChunkSize,
       base |-> <<>>, bytes |-> B("hello")],
      [kind |-> "bytes", name |-> <<>>, data |-> <<>>, maxread |-> ChunkSize,
       base |-> <<>>, bytes |-> <<>>],
      [kind |-> "stream", name |-> <<>>, data |-> B("hello"), maxread |-> 2,
       base |-> <<>>, bytes |-> B("hello")],
      [kind |-> "object", name |-> <<>>, data |-> <<>>, maxread |-> ChunkSize,
       base |-> <<>>, bytes |-> <<>>] }

\* destinations, each with the path it names once trailing slashes are dropped
PushDsts ==
    { [dst |-> B("/sdcard"), stem |-> B("/sdcard")],
      [dst |-> B("/sdcard/"), stem |-> B("/sdcard")],
      [dst |-> B("/data/local/tmp/f"), stem |-> B("/data/local/tmp/f")] }

ServerMsg == B("couldn't create file: Permission denied")

\* the server's status frame for a SEND request
SendReplies == { Okay, Fail \o ToBytesLittle4(Len(ServerMsg)) \o ServerMsg, <<>>, B("WHAT") }

\* n bytes that differ from chunk to chunk
Bytes(n) == [i \in 1..n |-> (i * 7 + i \div 251) % 256]

\* lengths around the chunk size, and a length of several chunks
Lengths == {0, 1, ChunkSize - 1, ChunkSize, ChunkSize + 1, 2 * ChunkSize + 1}

BigSources ==
    { [kind |-> k, name |-> IF k = "path" THEN B("/tmp/big") ELSE <<>>,
       data |-> IF k = "path" THEN <<>> ELSE Bytes(n),
       maxread |-> IF k = "stream" THEN 3000 ELSE ChunkSize,
       base |-> IF k = "path" THEN B("big") ELSE <<>>, bytes |-> Bytes(n)] :
        k \in {"path", "bytes", "stream"}, n \in Lengths }

PushCalls ==
    { [name |-> "push", src |-> s, dst |-> d.dst, stem |-> d.stem, statmode |-> sm, mode |-> m,
       check |-> ck.check, size2 |-> Len(s.bytes) + ck.off, now |-> 1712500000, status |-> st] :
        s \in PushSources, d \in PushDsts, sm \in {0, 33188, 16877}, m \in {493, 420},
        ck \in { [check |-> FALSE, off |-> 0], [check |-> TRUE, off |-> 0], [check |-> TRUE, off |-> 1] },
        st \in SendReplies }
    \cup
    { [name |-> "_push_file", src |-> s, dst |-> B("/data/local/tmp/f"), stem |-> B("/data/local/tmp/f"),
       statmode |-> 0, mode |-> 493, check |-> FALSE, size2 |-> 0, now |-> 1712500000, status |-> st] :
        s \in BigSources, st \in SendReplies }

\* the streams of: the STAT session of push, the SEND session, the STAT
\* session of check=True; _push_file starts at the SEND session
PushScript(c) ==
    LET send == <<SyncOkay \o c.status, Ver41, SyncOkay \o StatReply(33261, c.size2, c.now), Ver41>>
    IN  IF c.name = "push" THEN <<SyncOkay \o StatReply(c.statmode, 0, IF c.statmode = 0 THEN 0 ELSE c.now), Ver41>> \o send
        ELSE send

InitPush ==
    /\ call \in PushCalls
    /\ script = PushScript(call)
    /\ localfs = LocalFiles \cup
                 (IF call.src.name = B("/tmp/big")
                  THEN {[path |-> call.src.name, kind |-> "file", data |-> call.src.bytes]} ELSE {})
    /\ attempts = <<>>
    /\ handles = <<>>
    /\ thr = NoThreads
    /\ features = <<>>
    /\ dev = SerialDevice
    /\ conns = <<>>
    /\ ret = NoRet
    /\ pc = "ready"
    /\ ncalls = 0
    /\ TrackIdle

Push ==
    /\ pc = "ready"
    /\ call.name = "push"
    /\ DoneHost(push(HostWorld, call.src, call.dst, call.mode, call.check, call.now))
    /\ UNCHANGED <<call, features, trackVars>>

PushFile ==
    /\ pc = "ready"
    /\ call.name = "_push_file"
    /\ DoneHost(_push_file(HostWorld, call.src, call.dst, call.mode, call.check, call.now))
    /\ UNCHANGED <<call, features, trackVars>>

NextPush == Push \/ PushFile

SpecPush == InitPush /\ [][NextPush]_vars

-----------------------------------------------------------------------------
(* Sync.iter_directory, pull, pull_file and pull_dir.  The local file system
   is the set w.fs of entries [path, kind, data]; a relative path with no
   directory part lies in the working directory, which exists. *)

\* pathlib.Path(p) of a path with no '.', '..' or empty component
Path(p) == RStripSlash(p)

\* _utils.append_path for a pathlib.Path base: (base / addition).as_posix()
append_path_Path(base, addition) ==
    IF addition # <<>> /\ addition[1] = Slash THEN Path(addition)
    ELSE IF addition = <<>> THEN base
    ELSE Path(base \o <<Slash>> \o addition)

FsKind(fs, p) == IF \E e \in fs : e.path = p THEN (CHOOSE e \in fs : e.path = p).kind ELSE "none"

\* the directories above p, nearest last
Ancestors(p) == { SubSeq(p, 1, i - 1) : i \in {j \in 2..Len(p) : p[j] = Slash} }

\* os.makedirs(p, exist_ok=exist_ok)
makedirs(w, p, exist_ok) ==
    IF \E a \in Ancestors(p) : FsKind(w.fs, a) = "file" THEN WR(w, "NotADirectoryError", p)
    ELSE IF FsKind(w.fs, p) = "file" \/ (FsKind(w.fs, p) = "dir" /\ ~exist_ok)
    THEN WR(w, "FileExistsError", p)
    ELSE WR([w EXCEPT !.fs = @ \cup { [path |-> d, kind |-> "dir", data |-> <<>>] :
                                       d \in {a \in Ancestors(p) \cup {p} : FsKind(w.fs, a) = "none"} }],
            "none", p)

\* dst.open("wb"): creates the file or empties it
OpenDest(w, p) ==
    IF FsKind(w.fs, p) = "dir" THEN WR(w, "IsADirectoryError", p)
    ELSE IF \E a \in Ancestors(p) : FsKind(w.fs, a) = "file" THEN WR(w, "NotADirectoryError", p)
    ELSE IF \E a \in Ancestors(p) : FsKind(w.fs, a) = "none" THEN WR(w, "FileNotFoundError", p)
    ELSE WR([w EXCEPT !.fs = {e \in @ : e.path # p} \cup {[path |-> p, kind |-> "file", data |-> <<>>]},
                      !.handles = Append(@, Handle(p))],
            "none", p)

\* f.write of every chunk that was yielded
WriteDest(w, p, data) ==
    [w EXCEPT !.fs = {e \in @ : e.path # p} \cup {[path |-> p, kind |-> "file", data |-> data]}]

\* the loop of iter_directory: the entries read until DONE
RECURSIVE DirectoryLoop(_, _)
DirectoryLoop(c, items) ==
    Bind(read_string(c, 4), LAMBDA response :
        IF response.exc # "none" THEN response
        ELSE IF response.v = DONE THEN R(response.c, "none", items)
        ELSE Bind(conn_recv(response.c, 16), LAMBDA d :
        IF d.exc # "none" THEN d
        ELSE IF Len(d.v) # 16 THEN R(d.c, "struct.error", d.v)
        ELSE Bind(read_string(d.c, U32(d.v, 13)), LAMBDA name :
        IF name.exc # "none" THEN name
        ELSE DirectoryLoop(name.c,
                 Append(items, FileInfo(U32(d.v, 1), U32(d.v, 5), <<U32(d.v, 9)>>, name.v))))))

\* list(self.iter_directory(path))
iter_directory(w, path) ==
    Bind(_prepare_sync(w, path, LIST), LAMBDA p :
        IF p.exc # "none" THEN p
        ELSE Leave(On(p.w, p.v, DirectoryLoop(p.w.conns[p.v], <<>>)), p.v))

pull_file(w, src, dst) ==
    Bind(OpenDest(w, Path(dst)), LAMBDA f :
        IF f.exc # "none" THEN f
        ELSE Bind(iter_content(f.w, src), LAMBDA it :
            WR(CloseHandle(WriteDest(it.w, Path(dst), Flatten(it.v.chunks)), Len(f.w.handles)),
               it.exc, IF it.exc = "none" THEN Len(Flatten(it.v.chunks)) ELSE it.v.msg)))

IsDir(f) == HasBit(f.mode, S_IFDIR)

IsFile(f) == HasBit(f.mode, S_IFREG)

RECURSIVE rec_pull_contents(_, _, _, _)
RECURSIVE PullDirs(_, _, _, _, _)
RECURSIVE PullFiles(_, _, _, _, _)

\* for file in files: s += self.pull_file(...)
PullFiles(w, src, dst, files, s) ==
    IF files = <<>> THEN WR(w, "none", s)
    ELSE Bind(pull_file(w, append_path(src, Head(files).path), append_path_Path(dst, Head(files).path)),
              LAMBDA r :
        IF r.exc # "none" THEN r ELSE PullFiles(r.w, src, dst, Tail(files), s + r.v))

\* for dir in dirs: makedirs, s += rec_pull_contents(...)
PullDirs(w, src, dst, dirs, exist_ok) ==
    IF dirs = <<>> THEN WR(w, "none", 0)
    ELSE Bind(makedirs(w, append_path_Path(dst, Head(dirs).path), exist_ok), LAMBDA m :
        IF m.exc # "none" THEN m
        ELSE Bind(rec_pull_contents(m.w, append_path(src, Head(dirs).path),
                                    append_path_Path(dst, Head(dirs).path), exist_ok), LAMBDA r :
        IF r.exc # "none" THEN r
        ELSE Bind(PullDirs(r.w, src, dst, Tail(dirs), exist_ok), LAMBDA t :
        IF t.exc # "none" THEN t ELSE WR(t.w, "none", r.v + t.v))))

rec_pull_contents(w, src, dst, exist_ok) ==
    Bind(iter_directory(w, src), LAMBDA l :
        IF l.exc # "none" THEN l
        ELSE Bind(PullDirs(l.w, src, dst,
                           SelectSeq(l.v, LAMBDA i : i.path # B(".") /\ i.path # B("..") /\ IsDir(i)),
                           exist_ok), LAMBDA d :
        IF d.exc # "none" THEN d
        ELSE PullFiles(d.w, src, dst,
                       SelectSeq(l.v, LAMBDA i : i.path # B(".") /\ i.path # B("..") /\ IsFile(i)),
                       d.v)))

pull_dir(w, src, dst, exist_ok) ==
    Bind(makedirs(w, Path(dst), exist_ok), LAMBDA m :
        IF m.exc # "none" THEN m ELSE rec_pull_contents(m.w, src, Path(dst), exist_ok))

pull(w, src, dst, exist_ok) ==
    Bind(stat(w, src), LAMBDA src_file_info :
        IF src_file_info.exc # "none" THEN src_file_info
        ELSE IF IsFile(src_file_info.v) THEN pull_file(src_file_info.w, src, dst)
        ELSE pull_dir(src_file_info.w, src, dst, exist_ok))

\* a node of the device's file tree
RNode(name, mode, data, kids) == [name |-> name, mode |-> mode, data |-> data, kids |-> kids]

\* the server's answer to STAT for a node (mode 0: no such path)
StatOf(n) == StatReply(n.mode, Len(n.data), IF n.mode = 0 THEN 0 ELSE 1712500000)

\* one entry of the server's answer to LIST
DentOf(n) ==
    DENT \o ToBytesLittle4(n.mode) \o ToBytesLittle4(Len(n.data)) \o ToBytesLittle4(1712500000)
         \o ToBytesLittle4(Len(n.name)) \o n.name

RECURSIVE DentsOf(_)
DentsOf(kids) == IF kids = <<>> THEN <<>> ELSE DentOf(Head(kids)) \o DentsOf(Tail(kids))

Zero16 == [i \in 1..16 |-> 0]

\* the server's answer to LIST: the entries, then DONE with an empty entry
ListOf(n) == DentsOf(n.kids) \o DONE \o Zero16

MsgNoSuchFile == B("open failed: No such file or directory")

MsgIsADirectory == B("read failed: Is a directory")

FailFrame(msg) == Fail \o ToBytesLittle4(Len(msg)) \o msg

\* the server's answer to RECV
RecvOf(n) ==
    IF n.mode = 0 THEN FailFrame(MsgNoSuchFile)
    ELSE IF HasBit(n.mode, S_IFDIR) THEN FailFrame(MsgIsADirectory)
    ELSE (IF n.data = <<>> THEN <<>> ELSE DataFrame(n.data)) \o DONE \o ToBytesLittle4(0)

RealKids(n) == SelectSeq(n.kids, LAMBDA k : k.name # B(".") /\ k.name # B(".."))

\* the sessions the server has with a client that lists n, then walks its
\* directories in the order listed, then receives its files in that order
RECURSIVE ListSessions(_)
RECURSIVE WalkSessions(_)
WalkSessions(kids) ==
    IF kids = <<>> THEN <<>> ELSE ListSessions(Head(kids)) \o WalkSessions(Tail(kids))

RECURSIVE RecvSessions(_)
RecvSessions(kids) ==
    IF kids = <<>> THEN <<>> ELSE <<SyncOkay \o RecvOf(Head(kids)), Ver41>> \o RecvSessions(Tail(kids))

ListSessions(n) ==
    <<SyncOkay \o ListOf(n), Ver41>>
    \o WalkSessions(SelectSeq(RealKids(n), LAMBDA k : HasBit(k.mode, S_IFDIR)))
    \o RecvSessions(SelectSeq(RealKids(n), LAMBDA k : HasBit(k.mode, S_IFREG)))

Dot == RNode(B("."), 16877, <<>>, <<>>)

DotDot == RNode(B(".."), 16877, <<>>, <<>>)

RemoteNodes ==
    { RNode(B("gone"), 0, <<>>, <<>>),
      RNode(B("a.txt"), 33188, B("hello"), <<>>),
      RNode(B("empty.txt"), 33188, <<>>, <<>>),
      RNode(B("link"), 41471, B("hi"), <<>>),
      RNode(B("tty"), 8624, <<>>, <<>>),
      RNode(B("nothing"), 16877, <<>>, <<Dot, DotDot>>),
      RNode(B("tree"), 16877, <<>>,
            <<Dot, DotDot,
              RNode(B("a.txt"), 33188, B("hello"), <<>>),
              RNode(B("sub"), 16877, <<>>, <<Dot, DotDot, RNode(B("b.txt"), 33188, B("x"), <<>>)>>),
              RNode(B("void"), 16877, <<>>, <<Dot, DotDot>>)>>) }

PullDsts == { B("/tmp/out"), B("/tmp/d"), B("out/"), B("/tmp/nodir/x"), B("/tmp/d/f.txt") }

PullCalls ==
    { [name |-> nm, src |-> B("/sdcard/") \o n.name, node |-> n, dst |-> d, exist_ok |-> e] :
        nm \in {"pull", "pull_file", "pull_dir"}, n \in RemoteNodes, d \in PullDsts, e \in BOOLEAN }

PullScript(c) ==
    IF c.name = "pull_file" THEN <<SyncOkay \o RecvOf(c.node), Ver41>>
    ELSE IF c.name = "pull_dir" THEN ListSessions(c.node)
    ELSE <<SyncOkay \o StatOf(c.node), Ver41>>
         \o (IF HasBit(c.node.mode, S_IFREG) THEN <<SyncOkay \o RecvOf(c.node), Ver41>>
             ELSE ListSessions(c.node))

InitPull ==
    /\ call \in PullCalls
    /\ script = PullScript(call)
    /\ localfs = LocalFiles
    /\ attempts = <<>>
    /\ handles = <<>>
    /\ thr = NoThreads
    /\ features = <<>>
    /\ dev = SerialDevice
    /\ conns = <<>>
    /\ ret = NoRet
    /\ pc = "ready"
    /\ ncalls = 0
    /\ TrackIdle

Pull ==
    /\ pc = "ready"
    /\ call.name = "pull"
    /\ DoneHost(pull(HostWorld, call.src, call.dst, call.exist_ok))
    /\ UNCHANGED <<call, features, trackVars>>

PullFile ==
    /\ pc = "ready"
    /\ call.name = "pull_file"
    /\ DoneHost(pull_file(HostWorld, call.src, call.dst))
    /\ UNCHANGED <<call, features, trackVars>>

PullDir ==
    /\ pc = "ready"
    /\ call.name = "pull_dir"
    /\ DoneHost(pull_dir(HostWorld, call.src, call.dst, call.exist_ok))
    /\ UNCHANGED <<call, features, trackVars>>

NextPull == Pull \/ PullFile \/ PullDir

SpecPull == InitPull /\ [][NextPull]_vars

\* push and pull together
InitSync == InitPush \/ InitPull

NextSync == Push \/ PushFile \/ Pull \/ PullFile \/ PullDir

SpecSync == InitSync /\ [][NextSync]_vars

-----------------------------------------------------------------------------
(* Properties *)

IsDone(name) == pc = "done" /\ call.name = name

\* s contains sub as a contiguous run
Contains(s, sub) == \E i \in 0..(Len(s) - Len(sub)) : SubSeq(s, i + 1, i + Len(sub)) = sub

\* ---- track_devices ----

Known(m) == {i \in 1..Len(Serials) : m[i] # Gone}

\* the events the diff of two snapshots calls for: absent for a serial that
\* left, present with the new status for a serial that is new or changed
ExpectedEvents(prev, cur) ==
    {DeviceEvent(FALSE, Serials[i], Absent) : i \in Known(prev) \ Known(cur)}
    \cup {DeviceEvent(TRUE, Serials[i], cur[i]) : i \in {j \in Known(cur) : prev[j] # cur[j]}}

\* C1: after every snapshot the events yielded are exactly the expected
\* ones, each once: absent for a serial that left, present with the new
\* status for a new or changed serial, nothing for an unchanged serial (so a
\* status change of a connected serial yields one event and no absent event).
C1_EventsAreExactlyTheDiff ==
    nsnap > 0 =>
        /\ ToSet(events) = ExpectedEvents(call.prev, call.cur)
        /\ Len(events) = Cardinality(ExpectedEvents(call.prev, call.cur))

\* ---- reverse_list ----

RECURSIVE ExpectedReverse(_)
ExpectedReverse(ls) ==
    IF ls = <<>> THEN <<>>
    ELSE (IF Len(Head(ls).fields) = 3
          THEN <<ReverseItem(Head(ls).fields[2], Head(ls).fields[3])>> ELSE <<>>)
         \o ExpectedReverse(Tail(ls))

\* C2: for every body delivered, reverse_list returns one ReverseItem per
\* line of exactly three fields, in line order, skips the other lines, and
\* returns the empty list without raising for an empty or all-malformed body.
C2_ReverseListOneItemPerLine ==
    (IsDone("reverse_list") /\ call.body # <<>>) =>
        ret.exc = "none" /\ ret.v = ExpectedReverse(call.lines)

\* ---- open_transport ----

\* C3: when open_transport raises, the connection it opened (the first one
\* made) is closed; a FAIL answer for an unknown serial is raised as AdbError
\* with the server's message.
C3_OpenTransportClosesOnError ==
    IsDone("open_transport") =>
        /\ ret.exc # "none" => conns[1].closed
        /\ conns[1].rd = Fail \o BlkNoDevice => ret.exc = "AdbError" /\ Block(ret.v) = BlkNoDevice

\* ---- forward ----

\* C4: forward returns normally only after reading two OKAY status frames
\* on its connection, and raises when the second status frame is FAIL.
C4_ForwardReadsTwoOkay ==
    IsDone("forward") =>
        /\ ret.exc = "none" => Take(conns[1].rd, 8) = Okay \o Okay
        /\ Take(conns[1].rd \o conns[1].inbuf, 8) = Okay \o Fail => ret.exc # "none"

\* ---- _shell_v2 ----

RECURSIVE Payloads(_, _)
Payloads(frs, ids) ==
    IF frs = <<>> THEN <<>>
    ELSE (IF Head(frs).id \in ids THEN Head(frs).data ELSE <<>>) \o Payloads(Tail(frs), ids)

Handshaken == call.pre = Okay \o Ack8 \o Okay /\ call.ver = Ver41

\* the frames sent are stdout and stderr frames followed by an exit frame
\* with a one byte payload
StdThenExit ==
    /\ Handshaken
    /\ call.frames # <<>>
    /\ \A i \in 1..(Len(call.frames) - 1) : call.frames[i].id \in {1, 2}
    /\ call.frames[Len(call.frames)].id = 3
    /\ Len(call.frames[Len(call.frames)].data) = 1

\* C5: for stdout and stderr frames followed by an exit frame with a one
\* byte payload, _shell_v2 returns stdout and stderr as the concatenations of
\* the id 1 and id 2 payloads, output as the concatenation of both in arrival
\* order, and returncode as the exit byte.
C5_ShellV2Decodes ==
    (IsDone("_shell_v2") /\ StdThenExit) =>
        /\ ret.exc = "none"
        /\ ret.v.stdout = Payloads(call.frames, {1})
        /\ ret.v.stderr = Payloads(call.frames, {2})
        /\ ret.v.output = Payloads(call.frames, {1, 2})
        /\ ret.v.returncode = call.frames[Len(call.frames)].data[1]
        /\ ret.v.returncode \in 0..255

C5_Witness ==
    /\ IsDone("_shell_v2") /\ StdThenExit
    /\ Len(call.frames) = 4
    /\ call.frames[1].id = 2 /\ call.frames[2].id = 1 /\ call.frames[3].id = 2
    /\ call.frames[2].data # <<>>
    /\ ret.v.returncode = 255

\* the client has read a whole frame whose id is not 1, 2 or 3
ReadUnknownFrame ==
    /\ Handshaken
    /\ \E i \in 1..Len(call.frames) :
          /\ call.frames[i].id \notin {1, 2, 3}
          /\ \A j \in 1..(i - 1) : ~(call.frames[j].id = 3 /\ call.frames[j].data # <<>>)

\* C6: a frame whose stream id is not 1, 2 or 3 makes _shell_v2 raise a
\* protocol error; it never returns a result from a stream that contained one.
C6_UnknownStreamIdRaises ==
    (IsDone("_shell_v2") /\ ReadUnknownFrame) => ret.exc = "AdbError"

\* C10: when _shell_v2 has ended, by returning or by raising, no connection
\* it opened is still open.
C10_ShellV2ClosesConnection ==
    IsDone("_shell_v2") => \A i \in 1..Len(conns) : conns[i].closed

\* ---- _shell_v1 ----

\* the captured output is the whole stream behind the handshake
Captured == call.pre = Okay \o Ack8 \o Okay /\ call.ver = Ver41 /\ call.cut = <<>>

\* positions of the sentinel among the pieces (no two other pieces join to one)
MagicAt == {i \in 1..Len(call.pieces) : call.pieces[i] = MAGIC}

LastMagic == CHOOSE i \in MagicAt : \A j \in MagicAt : j <= i

AfterLast == SubSeq(call.pieces, LastMagic + 1, Len(call.pieces))

\* the pieces after the last sentinel spell an integer: newlines, then digit
\* pieces, then newlines
IsDigits(p) == p \in {B("0"), B("17")}

TailIsInteger ==
    \E a, b \in 0..Len(AfterLast) :
        /\ a < b
        /\ \A i \in 1..Len(AfterLast) :
              IF i > a /\ i <= b THEN IsDigits(AfterLast[i]) ELSE AfterLast[i] = Newline

RECURSIVE TailValue(_, _)
TailValue(ps, acc) ==
    IF ps = <<>> THEN acc
    ELSE IF Head(ps) = B("0") THEN TailValue(Tail(ps), acc * 10)
    ELSE IF Head(ps) = B("17") THEN TailValue(Tail(ps), acc * 100 + 17)
    ELSE TailValue(Tail(ps), acc)

\* the command frame written for the shell: "shell:" + cmdargs + "; echo X4EXIT:$?"
SentWithSentinel ==
    LET cmd == CmdShell \o call.cmdargs \o EchoMagic
    IN  Contains(conns[1].sent, Format04x(Len(cmd)) \o cmd)

\* C7 as stated: whenever the captured output contains the sentinel,
\* _shell_v1 returns the bytes before its last occurrence and a return code;
\* without a sentinel it raises AdbError.
C7_AnySentinelOutputReturns ==
    (IsDone("_shell_v1") /\ Captured) =>
        /\ SentWithSentinel
        /\ MagicAt # {} =>
              ret.exc = "none" /\ ret.v.output = Flatten(SubSeq(call.pieces, 1, LastMagic - 1))
        /\ MagicAt = {} => ret.exc = "AdbError"

\* C7 amended: the command is sent with the sentinel echo appended; when the
\* captured output contains the sentinel and the bytes after its last
\* occurrence are an integer for int(), _shell_v1 returns the bytes before
\* that last occurrence and that integer; when those bytes are no integer it
\* raises ValueError; without a sentinel it raises AdbError and returns no
\* return code.
C7_LastSentinelSplitsOutput ==
    (IsDone("_shell_v1") /\ Captured) =>
        /\ SentWithSentinel
        /\ (MagicAt # {} /\ TailIsInteger) =>
              /\ ret.exc = "none"
              /\ ret.v.output = Flatten(SubSeq(call.pieces, 1, LastMagic - 1))
              /\ ret.v.returncode = TailValue(AfterLast, 0)
        /\ (MagicAt # {} /\ ~TailIsInteger) => ret.exc = "ValueError"
        /\ MagicAt = {} => ret.exc = "AdbError" /\ ret.v = MsgShellInvalid

C7_Witness ==
    /\ IsDone("_shell_v1") /\ Captured
    /\ Cardinality(MagicAt) = 2
    /\ LastMagic = 3
    /\ ret.exc = "none"
    /\ ret.v.returncode = 17
    /\ Contains(ret.v.output, MAGIC)

\* ---- shell2 ----

SentShellV2 == \E i \in 1..Len(conns) : Contains(conns[i].sent, CmdShellV2)

SentShellV1 == \E i \in 1..Len(conns) : Contains(conns[i].sent, CmdShell)

\* C8: over any sequence of shell2 and get_features calls, no connection
\* carries a "shell,v2:" command unless the device's feature list contains
\* shell_v2.
C8_ShellV2OnlyWithFeature ==
    SentShellV2 => ShellV2Feature \in FeatureSet(features)

C8_Witness ==
    /\ IsDone("shell2")
    /\ call.v2
    /\ ncalls = 2
    /\ ShellV2Feature \notin FeatureSet(features)
    /\ ret.exc = "none"
    /\ SentShellV1

\* C9: shell2 with v2=True on a device without shell_v2 raises, and the
\* command is sent to the device by neither shell protocol.
C9_ShellV2RequestFailsWithoutFeature ==
    (IsDone("shell2") /\ call.v2 /\ ShellV2Feature \notin FeatureSet(features)) =>
        ret.exc # "none" /\ ~SentShellV1 /\ ~SentShellV2

\* C11: in batch mode (stream=False), once open_shell has passed, shell has
\* closed the connection when it ends: a read of the output that blocks past
\* the timeout ends the call with AdbTimeout, never with a return value, and
\* output that ends with the peer closing is returned whole.
C11_ShellBatchClosesAndTimesOut ==
    (IsDone("shell") /\ ~call.stream /\ call.pre = Okay \o Ack8 \o Okay) =>
        /\ conns[1].closed
        /\ call.cut = <<TIMEOUT>> => ret.exc = "AdbTimeout"
        /\ call.cut = <<>> =>
              /\ ret.exc = "none"
              /\ ~call.encoding => ret.v = Flatten(call.pieces)
              /\ call.encoding /\ ~call.rstrip => ret.v = Decode(Flatten(call.pieces))
              /\ call.encoding /\ call.rstrip => ret.v = rstrip(Decode(Flatten(call.pieces)))

\* a batch shell whose output read timed out after some output had arrived
C11_Witness ==
    /\ IsDone("shell") /\ ~call.stream /\ call.pre = Okay \o Ack8 \o Okay
    /\ call.cut = <<TIMEOUT>> /\ call.pieces # <<>>
    /\ ret.exc = "AdbTimeout" /\ conns[1].closed
    /\ conns[1].rd = call.pre \o Flatten(call.pieces)

\* C19: for a STAT reply (mode, size, mtime), stat returns the FileInfo with
\* that mode and size and with mtime None exactly when the wire mtime is 0
\* (so (0, 0, 0) gives mode 0, size 0, mtime None), and exists returns TRUE
\* exactly when the wire mtime is not 0.
C19_StatMapsReply ==
    (pc = "done" /\ call.reply = StatReply(call.mode, call.size, call.mtime)) =>
        /\ ret.exc = "none"
        /\ call.name = "stat" =>
              /\ ret.v.mode = call.mode /\ ret.v.size = call.size /\ ret.v.path = call.path
              /\ (ret.v.mtime = None) <=> (call.mtime = 0)
              /\ call.mtime # 0 => ret.v.mtime = <<call.mtime>>
        /\ call.name = "exists" => (ret.v <=> (call.mtime # 0))

\* stat of a path that does not exist
C19_Witness ==
    /\ IsDone("stat") /\ call.reply = StatReply(0, 0, 0)
    /\ ret.exc = "none" /\ ret.v = FileInfo(0, 0, None, call.path)

\* C18: iter_content yields the payloads of the DATA frames in wire order,
\* each whole, and ends normally only at DONE; a FAIL frame raises an error
\* with the server's message, a DATA frame with fewer bytes than declared
\* raises, and any other opcode or the end of the stream before DONE raises.
C18_IterContentFrames ==
    (IsDone("iter_content") /\ call.pre = SyncOkay) =>
        /\ ret.v.chunks = call.payloads
        /\ (ret.exc = "none") <=> (call.ending.kind = "done")
        /\ call.ending.kind = "fail" => ret.exc = "AdbError" /\ ret.v.msg = B("No file")
        /\ call.ending.kind = "short" => ret.exc = "AdbError" /\ ret.v.msg = MsgChunkMissing
        /\ call.ending.kind = "other" => ret.exc # "none"
        /\ conns[1].closed

\* DATA frames and then a FAIL frame: the chunks were yielded, then the error
C18_Witness ==
    /\ IsDone("iter_content") /\ call.pre = SyncOkay
    /\ Len(call.payloads) >= 2 /\ call.ending.kind = "fail"
    /\ ret.v.chunks = call.payloads /\ ret.exc = "AdbError" /\ ret.v.msg = B("No file")

\* what a sync session has sent before its request header
SessionHead == Block(CmdHostTport \o Serial) \o Block(CmdSync)

\* the header of a sync request
SyncHeader(cmd, path) == cmd \o ToBytesLittle4(Len(path)) \o path

\* the payloads of the DATA records that b starts with
RECURSIVE DataPayloads(_)
DataPayloads(b) ==
    IF Len(b) >= 8 /\ SubSeq(b, 1, 4) = DATA /\ Len(b) >= 8 + U32(b, 5)
    THEN <<SubSeq(b, 9, 8 + U32(b, 5))>> \o DataPayloads(Drop(b, 8 + U32(b, 5)))
    ELSE <<>>

\* what follows the DATA records that b starts with
RECURSIVE AfterData(_)
AfterData(b) ==
    IF Len(b) >= 8 /\ SubSeq(b, 1, 4) = DATA /\ Len(b) >= 8 + U32(b, 5)
    THEN AfterData(Drop(b, 8 + U32(b, 5)))
    ELSE b

\* what the session on connection i sent after the header of its SEND request
SendBody(i, dst, mode) ==
    Drop(conns[i].sent, Len(SessionHead \o SyncHeader(SEND, SendPath(dst, mode))))

\* C14: for a source of N bytes _push_file writes, after the SEND header,
\* DATA records of 1..4096 bytes each whose payloads make up the source,
\* then one DONE record and nothing else; the only read after the header is
\* the read of the status, made after DONE was sent; on OKAY it returns N.
\* A source of 0 bytes gives no DATA record.
C14_PushFileRecords ==
    IsDone("_push_file") =>
        LET body == SendBody(1, call.dst, call.mode)
            io == conns[1].io
        IN  /\ \A k \in 1..Len(DataPayloads(body)) :
                  Len(DataPayloads(body)[k]) >= 1 /\ Len(DataPayloads(body)[k]) <= 4096
            /\ Flatten(DataPayloads(body)) = call.src.bytes
            /\ AfterData(body) = DONE \o ToBytesLittle4(call.now)
            /\ call.src.bytes = <<>> => body = DONE \o ToBytesLittle4(call.now)
            /\ io[Len(io) - 2].op = "recv" /\ io[Len(io) - 3] = Io("send", 8)
            /\ \A k \in 6..(Len(io) - 3) : io[k].op = "send"
            /\ SubSeq(io, Len(io) - 1, Len(io)) = <<Io("shutdown", 0), Io("close", 0)>>
            /\ call.status = Okay => ret.exc = "none" /\ ret.v = Len(call.src.bytes)

\* a source of more than two chunks pushed with success
C14_Witness ==
    /\ IsDone("_push_file") /\ Len(call.src.bytes) > 2 * ChunkSize /\ call.status = Okay
    /\ Len(DataPayloads(SendBody(1, call.dst, call.mode))) = 3
    /\ ret.exc = "none" /\ ret.v = Len(call.src.bytes)

\* the path in the header of the SEND request on connection i: the bytes
\* of the declared length behind the opcode
SendRequestPath(i) ==
    LET h == Drop(conns[i].sent, Len(SessionHead))
    IN  SubSeq(h, 9, 8 + U32(h, 5))

SentSEND(i) == Len(conns) >= i /\ SubSeq(Drop(conns[i].sent, Len(SessionHead)), 1, 4) = SEND

PushStatOk == IsDone("push")

\* C15: push STATs dst first; for a directory and a source that is a file
\* path the SEND path is dst, one '/', the basename of src; for a directory
\* and a bytes or stream source push raises AdbSyncError and opens no SEND
\* session; for a dst that is no directory the SEND path is dst.
C15_PushToDirectory ==
    IsDone("push") =>
        /\ SubSeq(Drop(conns[1].sent, Len(SessionHead)), 1, 4) = STAT
        /\ (call.statmode = 16877 /\ call.src.kind = "path" /\ SentSEND(3)) =>
              SendRequestPath(3) = call.stem \o B("/") \o call.src.base \o B(",") \o DecStr(32768 + call.mode)
        /\ (call.statmode = 16877 /\ call.src.kind = "path" /\ call.src.name \in {B("/tmp/d/f.txt"), B("f.txt")}) =>
              SentSEND(3)
        /\ (call.statmode = 16877 /\ call.src.kind \in {"bytes", "stream", "object"}) =>
              ret.exc = "AdbSyncError" /\ Len(conns) = 2
        /\ (call.statmode # 16877 /\ call.src.kind \in {"bytes", "stream"}) =>
              SentSEND(3) /\ SendRequestPath(3) = call.dst \o B(",") \o DecStr(32768 + call.mode)
        /\ (call.statmode # 16877 /\ SentSEND(3)) =>
              SendRequestPath(3) = call.dst \o B(",") \o DecStr(32768 + call.mode)

\* a file path pushed to a directory named with a trailing slash
C15_Witness ==
    /\ IsDone("push") /\ call.statmode = 16877 /\ call.dst = B("/sdcard/")
    /\ call.src.name = B("/tmp/d/f.txt") /\ ret.exc = "none"
    /\ SendRequestPath(3) = B("/sdcard/f.txt,33261")

\* C16: when the server answers the SEND request with FAIL and a message,
\* push raises an error that carries the message, and the session is closed.
C16_PushFailCarriesMessage ==
    (IsDone("push") /\ SentSEND(3) /\ call.status = Fail \o ToBytesLittle4(Len(ServerMsg)) \o ServerMsg) =>
        /\ ret.exc = "AdbError"
        /\ Contains(ret.v, ServerMsg)
        /\ conns[3].closed

\* connection i is a sync session: the sync: command was written on it
IsSession(i) == Len(conns[i].sent) >= Len(SessionHead) /\ SubSeq(conns[i].sent, 1, Len(SessionHead)) = SessionHead

\* what session i wrote after the handshake
SessionSent(i) == Drop(conns[i].sent, Len(SessionHead))

\* the opcode of the request of session i
SessionCmd(i) == SubSeq(SessionSent(i), 1, 4)

\* the request that follows the STAT session of pull has opcode cmd
PullDid(cmd) == Len(conns) >= 3 /\ IsSession(3) /\ SessionCmd(3) = cmd

\* C17: pull does a file-pull (RECV of src) exactly when the STAT mode of
\* src has S_IFREG and a directory-pull (LIST of src) exactly when it has
\* S_IFDIR; for a mode with neither bit it sends neither and creates
\* nothing locally.
C17_PullDispatch ==
    (IsDone("pull") /\ call.dst = B("/tmp/out")) =>
        /\ PullDid(RECV) = HasBit(call.node.mode, 32768)
        /\ PullDid(LIST) = HasBit(call.node.mode, 16384)
        /\ (~HasBit(call.node.mode, 32768) /\ ~HasBit(call.node.mode, 16384)) =>
              /\ ~PullDid(RECV) /\ ~PullDid(LIST)
              /\ localfs = LocalFiles

IsSessionConn(c) == Take(c.sent, Len(SessionHead)) = SessionHead

\* the sync sessions in the order they were opened
Sessions == SelectSeq(conns, IsSessionConn)

\* the opcodes of the requests of the sessions, in that order
SessionCmds == [i \in 1..Len(Sessions) |-> SubSeq(Drop(Sessions[i].sent, Len(SessionHead)), 1, 4)]

\* s wrote exactly one request header after the handshake; behind the
\* header of SEND come only DATA records and one DONE record
OneRequest(s) ==
    LET h == Drop(s.sent, Len(SessionHead))
    IN  /\ Len(h) >= 8
        /\ SubSeq(h, 1, 4) \in {STAT, LIST, SEND, RECV}
        /\ Len(h) >= 8 + U32(h, 5)
        /\ SubSeq(h, 1, 4) # SEND => Len(h) = 8 + U32(h, 5)
        /\ SubSeq(h, 1, 4) = SEND =>
              /\ Len(AfterData(Drop(h, 8 + U32(h, 5)))) = 8
              /\ SubSeq(AfterData(Drop(h, 8 + U32(h, 5))), 1, 4) = DONE

\* C12: every sync session carries exactly one request header after the
\* sync: handshake and is closed once the request has completed or failed;
\* push uses one session for STAT, one for SEND and one more for the STAT of
\* check=True, pull uses one for STAT and one for each RECV or LIST.
C12_OneRequestPerSession ==
    pc = "done" =>
        /\ \A i \in 1..Len(Sessions) : OneRequest(Sessions[i]) /\ Sessions[i].closed
        /\ (call.name = "push" /\ ret.exc = "none") =>
              SessionCmds = (IF call.check THEN <<STAT, SEND, STAT>> ELSE <<STAT, SEND>>)
        /\ (call.name = "pull" /\ ret.exc = "none" /\ HasBit(call.node.mode, 32768)) =>
              SessionCmds = <<STAT, RECV>>
        /\ (call.name = "pull" /\ Len(Sessions) >= 1) => SessionCmds[1] = STAT

\* a push with check=True that went through its three sessions
C12_Witness ==
    /\ IsDone("push") /\ call.check /\ ret.exc = "none" /\ call.src.bytes # <<>>
    /\ SessionCmds = <<STAT, SEND, STAT>>
    /\ \A i \in 1..3 : Sessions[i].closed

-----------------------------------------------------------------------------
(* Push followed by reading back, against a server that stores what the
   SEND session delivered and answers STAT and RECV from what it stored. *)

\* the path of the request of session c
RequestPath(c) == SubSeq(Drop(c.sent, Len(SessionHead)), 9, 8 + U32(Drop(c.sent, Len(SessionHead)), 5))

\* what session c wrote behind its request header
RequestBody(c) == Drop(c.sent, Len(SessionHead) + 8 + Len(RequestPath(c)))

\* the part of a SEND path before its last comma
BeforeMode(p) ==
    LET at == {i \in 1..Len(p) : p[i] = 44}
    IN  IF at = {} THEN p ELSE SubSeq(p, 1, (CHOOSE i \in at : \A j \in at : j <= i) - 1)

\* the server keeps a file once DONE has arrived behind whole DATA records
ServerStored(c) ==
    IF Len(AfterData(RequestBody(c))) = 8 /\ SubSeq(AfterData(RequestBody(c)), 1, 4) = DONE
    THEN {[path |-> BeforeMode(RequestPath(c)), data |-> Flatten(DataPayloads(RequestBody(c)))]}
    ELSE {}

\* data cut into DATA frames of at most k bytes
RECURSIVE Chunked(_, _)
Chunked(data, k) == IF data = <<>> THEN <<>> ELSE DataFrame(Take(data, k)) \o Chunked(Drop(data, k), k)

\* the server's answers to STAT and RECV of path from the files it keeps
ServerStat(files, path) ==
    IF \E f \in files : f.path = path
    THEN StatReply(33261, Len((CHOOSE f \in files : f.path = path).data), 1712500000)
    ELSE StatReply(0, 0, 0)

ServerRecv(files, path, k) ==
    IF \E f \in files : f.path = path
    THEN Chunked((CHOOSE f \in files : f.path = path).data, k) \o DONE \o ToBytesLittle4(0)
    ELSE FailFrame(MsgNoSuchFile)

\* byte strings of n bytes
Patterns(n) == { Bytes(n), [i \in 1..n |-> 68] }

\* sizes of the DATA frames the server answers with
ServerChunks == {65536, 4096, 1000}

RoundTripCalls ==
    { [name |-> "roundtrip", src |-> [kind |-> "bytes", name |-> <<>>, data |-> x, maxread |-> ChunkSize],
       x |-> x, dst |-> B("/data/local/tmp/f"), mode |-> 493, now |-> 1712500000, back |-> b, chunk |-> k,
       out |-> B("/tmp/out")] :
        x \in UNION {Patterns(n) : n \in Lengths}, b \in {"read_bytes", "iter_content", "pull"},
        k \in ServerChunks }

InitRoundTrip ==
    /\ call \in RoundTripCalls
    /\ script = <<SyncOkay \o StatReply(0, 0, 0), Ver41, SyncOkay \o Okay, Ver41>>
    /\ localfs = LocalFiles
    /\ attempts = <<>>
    /\ handles = <<>>
    /\ thr = NoThreads
    /\ features = <<>>
    /\ dev = SerialDevice
    /\ conns = <<>>
    /\ ret = NoRet
    /\ pc = "ready"
    /\ ncalls = 0
    /\ TrackIdle

\* push(X, dst); the server then holds what the SEND session delivered and
\* has its answers to the requests of the read back ready
\* the files the server holds after the push that ended as r
RtStored(r) == IF Len(r.w.conns) >= 3 THEN ServerStored(r.w.conns[3]) ELSE {}

\* the server's answers to the requests of the read back
RtAnswers(files) ==
    (IF call.back = "pull" THEN <<SyncOkay \o ServerStat(files, call.dst), Ver41>> ELSE <<>>)
    \o <<SyncOkay \o ServerRecv(files, call.dst, call.chunk), Ver41>>

\* the variables after the push that ended as r
RtPushed(r) ==
    /\ conns' = r.w.conns
    /\ dev' = r.w.dev
    /\ localfs' = r.w.fs
    /\ handles' = r.w.handles
    /\ ret' = [exc |-> r.exc, v |-> r.v]
    /\ script' = RtAnswers(RtStored(r))

RtPush ==
    /\ pc = "ready"
    /\ call.name = "roundtrip"
    /\ RtPushed(push(HostWorld, call.src, call.dst, call.mode, FALSE, call.now))
    /\ pc' = "pushed"
    /\ ncalls' = ncalls + 1
    /\ UNCHANGED <<call, features, trackVars, attempts, thr>>

RtReadBytes ==
    /\ pc = "pushed"
    /\ call.back = "read_bytes"
    /\ DoneHost(read_bytes(HostWorld, call.dst))
    /\ UNCHANGED <<call, features, trackVars>>

RtIterContent ==
    /\ pc = "pushed"
    /\ call.back = "iter_content"
    /\ DoneHost(iter_content(HostWorld, call.dst))
    /\ UNCHANGED <<call, features, trackVars>>

RtPull ==
    /\ pc = "pushed"
    /\ call.back = "pull"
    /\ DoneHost(pull(HostWorld, call.dst, call.out, FALSE))
    /\ UNCHANGED <<call, features, trackVars>>

NextRoundTrip == RtPush \/ RtReadBytes \/ RtIterContent \/ RtPull

SpecRoundTrip == InitRoundTrip /\ [][NextRoundTrip]_vars

\* C13: against a server that stores what SEND delivered and returns it on
\* RECV, push(X, path) followed by read_bytes(path), iter_content(path) or
\* pull(path, local) gives exactly X, for X of 0, 1, 4095, 4096, 4097 and
\* 8193 bytes.
C13_PushThenReadBack ==
    IsDone("roundtrip") =>
        /\ ret.exc = "none"
        /\ call.back = "read_bytes" => ret.v = call.x
        /\ call.back = "iter_content" => Flatten(ret.v.chunks) = call.x
        /\ call.back = "pull" =>
              /\ ret.v = Len(call.x)
              /\ [path |-> call.out, kind |-> "file", data |-> call.x] \in localfs

\* several chunks pushed, stored by the server and pulled back
C13_Witness ==
    /\ IsDone("roundtrip") /\ call.back = "pull" /\ Len(call.x) = 2 * ChunkSize + 1 /\ call.chunk = 1000
    /\ ServerStored(conns[3]) = {[path |-> call.dst, data |-> call.x]}
    /\ RequestPath(conns[7]) = call.dst
    /\ [path |-> call.out, kind |-> "file", data |-> call.x] \in localfs

-----------------------------------------------------------------------------
(* AdbConnection.__init__: _safe_connect and _create_socket.  The host is
   n = [attempts, outcomes, start]: the log of what was tried, the outcomes
   the coming connects will have, and the outcome of adb start-server. *)

NR(n, exc, v) == [n |-> n, exc |-> exc, v |-> v]

MsgConnectTimeout == B("connect to adb server timeout")

MsgConnectFailed == B("connect to adb server failed: ")

MsgNoAdb == B("No adb exe could be found. Install adb on your system")

\* s.connect((adb_host, adb_port)) and the translation of its errors
_create_socket(n) ==
    LET o == IF n.outcomes = <<>> THEN "refused" ELSE Head(n.outcomes)
        m == [n EXCEPT !.attempts = Append(@, "connect"),
                       !.outcomes = IF @ = <<>> THEN @ ELSE Tail(@)]
    IN  IF o = "ok" THEN NR(m, "none", <<>>)
        ELSE IF o = "timeout" THEN NR(m, "AdbTimeout", MsgConnectTimeout)
        ELSE IF o = "overflow" THEN NR(m, "OverflowError", <<>>)
        ELSE NR(m, "AdbConnectionError", MsgConnectFailed \o B(o))

\* subprocess.run([adb_path(), "start-server"], timeout=20.0)
StartServer(n) ==
    IF n.start = "noadb" THEN NR(n, "AdbError", MsgNoAdb)
    ELSE IF n.start = "missing"
    THEN NR([n EXCEPT !.attempts = Append(@, "start-server")], "FileNotFoundError", <<>>)
    ELSE IF n.start = "expired"
    THEN NR([n EXCEPT !.attempts = Append(@, "start-server")], "TimeoutExpired", <<>>)
    ELSE NR([n EXCEPT !.attempts = Append(@, "start-server")], "none", <<>>)

\* _safe_connect that starts the server again when the second connect fails
_safe_connect_again(n) ==
    Bind(_create_socket(n), LAMBDA first :
        IF first.exc \notin {"AdbTimeout", "AdbConnectionError"} THEN first
        ELSE Bind(StartServer(first.n), LAMBDA run :
        IF run.exc # "none" THEN run
        ELSE Bind(_create_socket(run.n), LAMBDA second :
        IF second.exc \notin {"AdbTimeout", "AdbConnectionError"} THEN second
        ELSE Bind(StartServer(second.n), LAMBDA rerun :
        IF rerun.exc # "none" THEN rerun ELSE _create_socket(rerun.n)))))

_safe_connect(n) ==
    Bind(_create_socket(n), LAMBDA first :
        IF first.exc \notin {"AdbTimeout", "AdbConnectionError"} THEN first
        ELSE Bind(StartServer(first.n), LAMBDA run :
        IF run.exc # "none" THEN run ELSE _create_socket(run.n)))

ConnectOutcomes == {"ok", "timeout", "refused", "unreachable", "overflow"}

StartOutcomes == {"ok", "exit1", "expired", "missing", "noadb"}

\* what the server delivers on the connection once it stands
ConnectStreams ==
    { Okay, <<TIMEOUT>> \o Okay, B("OK") \o <<TIMEOUT>> \o B("AY"), B("OK"), <<>>,
      Fail \o Block(B("device offline")), Fail \o B("00") }

ConnectCalls ==
    { [name |-> "connect", first |-> a, second |-> b, third |-> c, start |-> s, op |-> op, stream |-> st] :
        a \in ConnectOutcomes, b \in ConnectOutcomes, c \in {"ok", "refused"}, s \in StartOutcomes,
        op \in {"send_command", "check_okay", "read_string", "read_until_close"},
        st \in ConnectStreams }

InitConnect ==
    /\ call \in ConnectCalls
    /\ script = <<call.stream>>
    /\ attempts = <<>>
    /\ handles = <<>>
    /\ thr = NoThreads
    /\ localfs = {}
    /\ features = <<>>
    /\ dev = SerialDevice
    /\ conns = <<>>
    /\ ret = NoRet
    /\ pc = "ready"
    /\ ncalls = 0
    /\ TrackIdle

\* AdbConnection(host, port)
Connect ==
    /\ pc = "ready"
    /\ call.name = "connect"
    /\ LET r == _safe_connect([attempts |-> attempts, outcomes |-> <<call.first, call.second, call.third>>,
                               start |-> call.start])
       IN  /\ attempts' = r.n.attempts
           /\ ret' = [exc |-> r.exc, v |-> r.v]
           /\ IF r.exc = "none"
              THEN conns' = <<AdbConnection(Head(script))>> /\ script' = Tail(script) /\ pc' = "connected"
              ELSE UNCHANGED <<conns, script>> /\ pc' = "done"
    /\ ncalls' = ncalls + 1
    /\ UNCHANGED <<call, features, dev, localfs, handles, thr, trackVars>>

\* one operation on the connection
Used(r) ==
    /\ conns' = <<r.c>>
    /\ ret' = [exc |-> r.exc, v |-> r.v]
    /\ pc' = "done"
    /\ ncalls' = ncalls + 1
    /\ UNCHANGED <<call, script, features, dev, hostVars, trackVars>>

UseSendCommand ==
    /\ pc = "connected" /\ call.op = "send_command"
    /\ Used(send_command(conns[1], CmdHostVersion))

UseCheckOkay ==
    /\ pc = "connected" /\ call.op = "check_okay"
    /\ Used(check_okay(conns[1]))

UseReadString ==
    /\ pc = "connected" /\ call.op = "read_string"
    /\ Used(read_string(conns[1], 4))

UseReadUntilClose ==
    /\ pc = "connected" /\ call.op = "read_until_close"
    /\ Used(read_until_close(conns[1], <<>>))

NextConnect == Connect \/ UseSendCommand \/ UseCheckOkay \/ UseReadString \/ UseReadUntilClose

SpecConnect == InitConnect /\ [][NextConnect]_vars

Count(s, x) == Cardinality({i \in 1..Len(s) : s[i] = x})

ConnectError(o) == IF o = "timeout" THEN "AdbTimeout" ELSE IF o = "overflow" THEN "OverflowError" ELSE "AdbConnectionError"

\* what is left of a stream behind its first TIMEOUT marker
BehindTimeout(s) ==
    LET at == {i \in 1..Len(s) : s[i] = TIMEOUT}
    IN  IF at = {} THEN <<>> ELSE Drop(s, CHOOSE i \in at : \A j \in at : i <= j)

\* C20: the construction of an AdbConnection runs adb start-server at most
\* once and connects at most twice; when the connect after the fallback
\* fails, its error reaches the caller and nothing more is tried; a read or
\* send that fails on the connection is not tried again and causes neither
\* a connect nor a start-server.
C20_OneFallbackNoRetry ==
    (call.name = "connect" /\ pc # "ready") =>
        /\ Count(attempts, "start-server") <= 1
        /\ Count(attempts, "connect") <= 2
        /\ call.first = "ok" => attempts = <<"connect">>
        /\ call.first = "overflow" => attempts = <<"connect">> /\ ret.exc = "OverflowError"
        /\ (call.first \in {"timeout", "refused", "unreachable"} /\ call.start \in {"ok", "exit1"}) =>
              /\ attempts = <<"connect", "start-server", "connect">>
              /\ call.second # "ok" =>
                    /\ pc = "done" /\ conns = <<>>
                    /\ ret.exc = ConnectError(call.second)
        /\ (call.first \in {"timeout", "refused", "unreachable"} /\ call.start \notin {"ok", "exit1"}) =>
              /\ Count(attempts, "connect") = 1 /\ conns = <<>> /\ ret.exc \notin {"none", "AdbTimeout", "AdbConnectionError"}
        /\ (pc = "done" /\ conns # <<>> /\ ret.exc = "AdbTimeout") =>
              /\ conns[1].inbuf = BehindTimeout(call.stream)
              /\ conns[1].io[Len(conns[1].io)].op = "recv"
              /\ Count(conns[1].rd, TIMEOUT) = 0

\* the connect after the fallback failed as well
C20_Witness ==
    /\ call.name = "connect" /\ pc = "done"
    /\ call.first = "refused" /\ call.second = "timeout" /\ call.start = "ok"
    /\ attempts = <<"connect", "start-server", "connect">>
    /\ ret.exc = "AdbTimeout" /\ conns = <<>>

\* C21: the start-server fallback runs only when the first connect is
\* refused; when the first connect fails in another way (a timeout, an
\* unreachable network) the error reaches the caller with no start-server
\* and no second connect.
C21_FallbackOnlyOnRefusal ==
    (call.name = "connect" /\ pc # "ready") =>
        /\ Count(attempts, "start-server") >= 1 => call.first = "refused"
        /\ call.first \in {"timeout", "unreachable", "overflow"} =>
              /\ attempts = <<"connect">>
              /\ ret.exc = ConnectError(call.first)
              /\ conns = <<>>

-----------------------------------------------------------------------------
(* Command frames and string blocks: send_command on a fresh connection,
   and read_string_block on a connection that is delivered what was written
   or the server's encoding of a string. *)

\* 'A', e with acute, the euro sign, an emoji, the replacement character
FramePoints == {65, 233, 8364, 128512, 65533}

\* n times the letter a
Letters(n) == [i \in 1..n |-> 97]

\* the strings to frame, each n letters followed by a short tail: short ones
\* of every mix of encoded widths, strings at and around 0xFFFF bytes, and
\* one that cannot be encoded
FrameStrings ==
    { [n |-> 0, tail |-> t] : t \in UNION {[1..k -> FramePoints] : k \in 0..2} }
    \cup { [n |-> 0, tail |-> B("host:version")], [n |-> 65535, tail |-> <<>>], [n |-> 65536, tail |-> <<>>],
           [n |-> 65533, tail |-> <<233>>], [n |-> 65534, tail |-> <<233>>], [n |-> 1, tail |-> <<55296>>] }

FrameStr(d) == Letters(d.n) \o d.tail

FrameCalls ==
    { [name |-> "send_command", s |-> d] : d \in FrameStrings }
    \cup { [name |-> "encode_string", s |-> d] :
             d \in {t \in FrameStrings : Encode(t.tail).ok /\ t.n + Len(Encode(t.tail).b) <= 65535} }

InitFrame ==
    /\ call \in FrameCalls
    /\ script = <<>>
    /\ conns = <<AdbConnection(<<>>)>>
    /\ HostIdle
    /\ features = <<>>
    /\ dev = SerialDevice
    /\ ret = NoRet
    /\ pc = "ready"
    /\ ncalls = 0
    /\ TrackIdle

\* c.send_command(call.s)
FrameSend ==
    /\ pc = "ready"
    /\ call.name = "send_command"
    /\ LET r == send_command(conns[1], FrameStr(call.s))
       IN  /\ conns' = <<r.c>>
           /\ ret' = [exc |-> r.exc, v |-> r.v]
    /\ pc' = "sent"
    /\ ncalls' = ncalls + 1
    /\ UNCHANGED <<call, script, features, dev, hostVars, trackVars>>

\* the peer has what was written: read_string_block on its side
FrameReadBack ==
    /\ pc = "sent"
    /\ LET r == read_string_block(AdbConnection(conns[1].sent))
       IN  /\ conns' = Append(conns, r.c)
           /\ ret' = [exc |-> r.exc, v |-> r.v]
    /\ pc' = "done"
    /\ ncalls' = ncalls + 1
    /\ UNCHANGED <<call, script, features, dev, hostVars, trackVars>>

\* read_string_block on the server's encode_string(call.s)
FrameReadBlock ==
    /\ pc = "ready"
    /\ call.name = "encode_string"
    /\ LET r == read_string_block(AdbConnection(Block(Encode(FrameStr(call.s)).b)))
       IN  /\ conns' = <<r.c>>
           /\ ret' = [exc |-> r.exc, v |-> r.v]
    /\ pc' = "done"
    /\ ncalls' = ncalls + 1
    /\ UNCHANGED <<call, script, features, dev, hostVars, trackVars>>

NextFrame == FrameSend \/ FrameReadBack \/ FrameReadBlock

SpecFrame == InitFrame /\ [][NextFrame]_vars

\* the UTF-8 byte length of a str that can be encoded
Utf8Len(s) == Len(Encode(s).b)

\* C23: send_command fails and writes nothing when the UTF-8 encoding of
\* cmd is longer than 0xFFFF bytes; otherwise it writes exactly 4 lowercase
\* hex digits whose value is the byte length, followed by those bytes.
C23_CommandFrameWidth ==
    (call.name = "send_command" /\ pc = "sent" /\ Encode(call.s.tail).ok) =>
        IF Utf8Len(FrameStr(call.s)) > 65535
        THEN ret.exc # "none" /\ conns[1].sent = <<>>
        ELSE /\ ret.exc = "none"
             /\ Len(conns[1].sent) = 4 + Utf8Len(FrameStr(call.s))
             /\ \A i \in 1..4 : conns[1].sent[i] \in 48..57 \cup 97..102
             /\ DigitsVal(SubSeq(conns[1].sent, 1, 4), 16) = Utf8Len(FrameStr(call.s))
             /\ Drop(conns[1].sent, 4) = Encode(FrameStr(call.s)).b

\* C24: for a command string C of at most 0xFFFF bytes of UTF-8, reading the
\* bytes written by send_command(C) as a string block (4 hex digits as a
\* length L, then L bytes as UTF-8) gives L = the byte length of C and C
\* itself; read_string_block on the server's encoding of such a string
\* returns the string.
C24_FrameRoundTrip ==
    (pc = "done" /\ call.name \in {"send_command", "encode_string"}
       /\ Encode(call.s.tail).ok /\ Utf8Len(FrameStr(call.s)) <= 65535) =>
        /\ ret.exc = "none"
        /\ ret.v = FrameStr(call.s)
        /\ conns[Len(conns)].inbuf = <<>>
        /\ Len(conns[Len(conns)].rd) = 4 + Utf8Len(FrameStr(call.s))
        /\ call.name = "send_command" =>
              DigitsVal(SubSeq(conns[1].sent, 1, 4), 16) = Utf8Len(FrameStr(call.s))

\* a string of characters of two and four bytes written and read back
C24_Witness ==
    /\ pc = "done" /\ call.name = "send_command" /\ call.s.tail = <<233, 128512>>
    /\ conns[1].sent = B("0006") \o <<195, 169, 240, 159, 152, 128>>
    /\ ret.exc = "none" /\ ret.v = <<233, 128512>>

-----------------------------------------------------------------------------
(* One AdbConnection and the operations a caller makes on it, in any order. *)

MsgRecvTimeout == B("adb recv timeout")

\* AdbConnection.send: alias of conn.send
send(c, data) == conn_send(c, data)

\* AdbConnection.recv: conn.recv with socket.timeout turned into AdbTimeout
recv(c, n) ==
    Bind(conn_recv(c, n), LAMBDA r :
        IF r.exc = "socket.timeout" THEN R(r.c, "AdbTimeout", MsgRecvTimeout) ELSE r)

MaxOps == 3

BlkOffline == Block(B("device offline"))

\* a block of 5 bytes of UTF-8
BlkCafe == Block(<<99, 97, 102, 195, 169>>)

\* what the peer delivers before it closes: status frames with and without
\* bytes behind them, blocks that are whole or cut, a read that times out
OpStreams ==
    { Okay \o B("rest"), Fail \o BlkOffline \o B("rest"), Fail \o BlkOffline, B("WHAT") \o B("rest"),
      B("OK"), <<>>, Fail, Fail \o B("00"), Fail \o B("zzzz"), <<TIMEOUT>> \o Okay, Okay \o Okay }
    \cup { Take(BlkCafe, k) : k \in 0..Len(BlkCafe) }
    \cup { BlkCafe \o BlkOffline, Block(<<>>) \o Okay }

InitConn ==
    /\ call = [name |-> "AdbConnection", arg |-> <<>>, before |-> AdbConnection(<<>>)]
    /\ script \in {<<s>> : s \in OpStreams}
    /\ conns = <<AdbConnection(Head(script))>>
    /\ HostIdle
    /\ features = <<>>
    /\ dev = SerialDevice
    /\ ret = NoRet
    /\ pc = "open"
    /\ ncalls = 0
    /\ TrackIdle

\* the outcome r of the operation name with argument arg on the connection
Operated(name, arg, r) ==
    /\ pc = "open"
    /\ ncalls < MaxOps
    /\ call' = [name |-> name, arg |-> arg, before |-> conns[1]]
    /\ conns' = <<r.c>>
    /\ ret' = [exc |-> r.exc, v |-> r.v]
    /\ ncalls' = ncalls + 1
    /\ UNCHANGED <<script, features, dev, pc, hostVars, trackVars>>

ConnSend == \E data \in {<<>>, B("x")} : Operated("send", data, send(conns[1], data))

ConnRecv == \E n \in {0, 2} : Operated("recv", n, recv(conns[1], n))

ConnRead == \E n \in {0, 4} : Operated("read", n, read(conns[1], n))

ConnSendCommand == Operated("send_command", CmdHostVersion, send_command(conns[1], CmdHostVersion))

ConnCheckOkay == Operated("check_okay", <<>>, check_okay(conns[1]))

ConnReadStringBlock == Operated("read_string_block", <<>>, read_string_block(conns[1]))

ConnClose == Operated("close", <<>>, R(close(conns[1]), "none", <<>>))

NextConn ==
    ConnSend \/ ConnRecv \/ ConnRead \/ ConnSendCommand \/ ConnCheckOkay \/ ConnReadStringBlock \/ ConnClose

SpecConn == InitConn /\ [][NextConn]_vars

\* the bytes the operation of this step found unread, and what it left
Unread == call.before.inbuf

Left == conns[1].inbuf

\* b starts with a whole string block: 4 hex digits and that many bytes
WholeBlock(b) ==
    /\ Len(b) >= 4
    /\ \A i \in 1..4 : b[i] \in 48..57 \cup 97..102
    /\ Len(b) >= 4 + DigitsVal(SubSeq(b, 1, 4), 16)
    /\ \A i \in 1..(4 + DigitsVal(SubSeq(b, 1, 4), 16)) : b[i] # TIMEOUT

BlockPayload(b) == SubSeq(b, 5, 4 + DigitsVal(SubSeq(b, 1, 4), 16))

\* C22: check_okay reads exactly 4 bytes; on OKAY it returns having taken
\* only those 4; on FAIL it takes one string block more and raises AdbError
\* with the block's content; on any other 4 bytes, or on fewer than 4 because
\* the peer closed, it raises AdbError; it returns normally on OKAY alone.
C22_CheckOkay ==
    (call.name = "check_okay" /\ ~call.before.closed /\ (\A i \in 1..Min(4, Len(Unread)) : Unread[i] # TIMEOUT)) =>
        /\ Take(Unread, 4) = Okay => ret.exc = "none" /\ Left = Drop(Unread, 4)
        /\ (Take(Unread, 4) = Fail /\ WholeBlock(Drop(Unread, 4))) =>
              /\ ret.exc = "AdbError"
              /\ ret.v = Decode(BlockPayload(Drop(Unread, 4)))
              /\ Left = Drop(Unread, 8 + Len(BlockPayload(Drop(Unread, 4))))
        /\ Take(Unread, 4) \notin {Okay, Fail} =>
              /\ ret.exc = "AdbError"
              /\ Left = Drop(Unread, 4)
        /\ ret.exc = "none" => Take(Unread, 4) = Okay

\* FAIL with its message, bytes behind it left unread
C22_Witness ==
    /\ call.name = "check_okay" /\ Unread = Fail \o BlkOffline \o B("rest")
    /\ ret.exc = "AdbError" /\ ret.v = B("device offline") /\ Left = B("rest")

\* C26: when the peer closes after the 4 hex digits of a string block and
\* before all of the declared bytes have arrived, read_string_block raises
\* a connection-closed error and never returns a payload shorter than
\* declared.
C26_ShortBlockRaises ==
    (call.name = "read_string_block" /\ ~call.before.closed
       /\ Len(Unread) >= 4 /\ (\A k \in 1..Len(Unread) : Unread[k] # TIMEOUT)
       /\ (\A i \in 1..4 : Unread[i] \in 48..57 \cup 97..102)
       /\ Len(Unread) < 4 + DigitsVal(SubSeq(Unread, 1, 4), 16)) =>
        ret.exc = "AdbError"

-----------------------------------------------------------------------------
(* BaseClient.wait_for *)

\* ":".join(cmds) with cmds = ['host-serial', serial] or ['host'], then
\* "wait-for-" + transport + "-" + state
WaitCmd(serial, transport, state) ==
    (IF serial # <<>> THEN B("host-serial:") \o serial ELSE B("host"))
    \o B(":") \o B("wait-for-") \o transport \o B("-") \o state

\* wait_for with one status frame read
wait_for_once(w, serial, transport, state) ==
    Bind(make_connection(w), LAMBDA m :
        Leave(SendCheck(m.w, m.v, WaitCmd(serial, transport, state)), m.v))

wait_for(w, serial, transport, state) ==
    Bind(make_connection(w), LAMBDA m :
        Bind(SendCheck(m.w, m.v, WaitCmd(serial, transport, state)), LAMBDA k :
            IF k.exc # "none" THEN Leave(k, m.v)
            ELSE Leave(On(k.w, m.v, check_okay(k.w.conns[m.v])), m.v)))

\* what the server answers, by the outcome the answer stands for
WaitAnswers ==
    { [kind |-> "okay", stream |-> Okay \o Okay],
      [kind |-> "okay", stream |-> Okay \o Okay \o B("more")],
      [kind |-> "fail", stream |-> Fail \o BlkNoDevice],
      [kind |-> "fail", stream |-> Okay \o Fail \o BlkNoDevice],
      [kind |-> "timeout", stream |-> <<TIMEOUT>> \o Okay \o Okay],
      [kind |-> "timeout", stream |-> Okay \o <<TIMEOUT>> \o Okay],
      [kind |-> "timeout", stream |-> Okay \o B("OK") \o <<TIMEOUT>> \o B("AY")],
      [kind |-> "timeout", stream |-> Okay \o Fail \o <<TIMEOUT>> \o BlkNoDevice],
      [kind |-> "closed", stream |-> Okay],
      [kind |-> "closed", stream |-> <<>>],
      [kind |-> "closed", stream |-> Okay \o B("OK")],
      [kind |-> "other", stream |-> Okay \o B("WHAT")],
      [kind |-> "other", stream |-> B("WHAT") \o Okay] }

WaitCalls ==
    { [name |-> "wait_for", serial |-> s, transport |-> t, state |-> st, answer |-> a] :
        s \in {<<>>, B("S1")}, t \in {B("any"), B("usb"), B("local")},
        st \in {B("device"), B("disconnect")}, a \in WaitAnswers }

InitWaitFor ==
    /\ call \in WaitCalls
    /\ script = <<call.answer.stream>>
    /\ HostIdle
    /\ features = <<>>
    /\ dev = SerialDevice
    /\ conns = <<>>
    /\ ret = NoRet
    /\ pc = "ready"
    /\ ncalls = 0
    /\ TrackIdle

WaitFor ==
    /\ pc = "ready"
    /\ call.name = "wait_for"
    /\ Done(wait_for(World, call.serial, call.transport, call.state))
    /\ UNCHANGED <<call, features, trackVars, hostVars>>

SpecWaitFor == InitWaitFor /\ [][WaitFor]_vars

\* C27: wait_for returns normally only after two OKAY frames were read in
\* sequence; a FAIL in the first or the second place raises AdbError (not
\* AdbTimeout) with the server's message; a read that blocks past the
\* timeout raises AdbTimeout; the connection is closed in every case.
C27_WaitForTwoOkays ==
    IsDone("wait_for") =>
        /\ Len(conns) = 1 /\ conns[1].closed
        /\ conns[1].sent = Block(WaitCmd(call.serial, call.transport, call.state))
        /\ ret.exc = "none" <=> call.answer.kind = "okay"
        /\ ret.exc = "none" => conns[1].rd = Okay \o Okay
        /\ call.answer.kind = "fail" => ret.exc = "AdbError" /\ ret.v = B("device 'S1' not found")
        /\ call.answer.kind = "timeout" => ret.exc = "AdbTimeout"
        /\ call.answer.kind \in {"closed", "other"} => ret.exc = "AdbError"

\* the first frame was OKAY and the second FAIL
C27_Witness ==
    /\ IsDone("wait_for") /\ call.answer.stream = Okay \o Fail \o BlkNoDevice /\ call.serial = B("S1")
    /\ conns[1].sent = B("0022host-serial:S1:wait-for-any-device")
    /\ ret.exc = "AdbError" /\ ret.v = B("device 'S1' not found") /\ conns[1].closed

-----------------------------------------------------------------------------
(* BaseDevice.__init__ and the serial property.  None and the empty str
   are <<>>, None and 0 are 0: the constructor tests truth only. *)

MsgSetAtLeastOne == B("serial, transport_id must set atleast one")

\* BaseDevice(client, serial, transport_id): yields the handle
BaseDevice(serial, transport_id) ==
    IF serial = <<>> /\ transport_id = 0
    THEN [exc |-> "AdbError", v |-> MsgSetAtLeastOne]
    ELSE [exc |-> "none", v |-> [_serial |-> serial, _transport_id |-> transport_id, _features |-> {}]]

\* no handle yet
NoDevice == [_serial |-> <<>>, _transport_id |-> 0, _features |-> {}]

DeviceCalls == [name : {"BaseDevice"}, serial : {<<>>, Serial, B("S2")}, transport_id : {0, 5, 7}]

InitDevice ==
    /\ call \in DeviceCalls
    /\ script \in {<<d, v>> : d \in StatusStreams, v \in {Ver41, Ver40}}
    /\ dev = NoDevice
    /\ HostIdle
    /\ features = <<>>
    /\ conns = <<>>
    /\ ret = NoRet
    /\ pc = "ready"
    /\ ncalls = 0
    /\ TrackIdle

Construct ==
    /\ pc = "ready"
    /\ call.name = "BaseDevice"
    /\ LET r == BaseDevice(call.serial, call.transport_id)
       IN  IF r.exc = "none"
           THEN dev' = r.v /\ ret' = NoRet /\ pc' = "constructed"
           ELSE dev' = dev /\ ret' = r /\ pc' = "done"
    /\ ncalls' = ncalls + 1
    /\ UNCHANGED <<call, script, conns, features, trackVars, hostVars>>

\* d.serial
DevSerial ==
    /\ pc = "constructed"
    /\ ret' = [exc |-> "none", v |-> dev._serial]
    /\ pc' = "done"
    /\ ncalls' = ncalls + 1
    /\ UNCHANGED <<call, script, conns, dev, features, trackVars, hostVars>>

\* d.open_transport(command)
DevOpenTransport ==
    /\ pc = "constructed"
    /\ \E command \in {<<>>, CmdGetState} : Done(open_transport(World, command))
    /\ UNCHANGED <<call, features, trackVars, hostVars>>

NextDevice == Construct \/ DevSerial \/ DevOpenTransport

SpecDevice == InitDevice /\ [][NextDevice]_vars

\* C28: a handle given both a serial and a transport id, or neither, is
\* rejected with an error; a handle given exactly one is accepted; serial
\* and transport id of a handle never change afterwards.
C28_ExactlyOneIdentity ==
    (call.name = "BaseDevice" /\ pc # "ready") =>
        /\ ((call.serial # <<>>) = (call.transport_id # 0)) =>
              pc = "done" /\ ncalls = 1 /\ ret.exc # "none" /\ dev = NoDevice
        /\ ((call.serial # <<>>) # (call.transport_id # 0)) =>
              /\ dev._serial = call.serial /\ dev._transport_id = call.transport_id
              /\ ncalls = 1 => pc = "constructed"


-----------------------------------------------------------------------------
(* BaseClient.forward_list and BaseDevice.forward_list *)

CmdHostListForward == B("host:list-forward")
CmdListForward == B("list-forward")

ForwardItem(serial, local, remote) == [serial |-> serial, local |-> local, remote |-> remote]

\* the for loop over the lines with no test of the first field
RECURSIVE ForwardLoopAll(_, _)
ForwardLoopAll(lines, serial) ==
    IF lines = <<>> THEN <<>>
    ELSE Bind(split_ws(Head(lines)), LAMBDA parts :
             IF Len(parts) # 3 THEN ForwardLoopAll(Tail(lines), serial)
             ELSE <<ForwardItem(parts[1], parts[2], parts[3])>> \o ForwardLoopAll(Tail(lines), serial))

\* the for loop over the lines; serial is '' (or None) where the caller
\* gave none, and BaseDevice.forward_list has no test of the first field
RECURSIVE ForwardLoop(_, _)
ForwardLoop(lines, serial) ==
    IF lines = <<>> THEN <<>>
    ELSE Bind(split_ws(Head(lines)), LAMBDA parts :
             IF Len(parts) # 3 THEN ForwardLoop(Tail(lines), serial)
             ELSE IF serial # <<>> /\ parts[1] # serial THEN ForwardLoop(Tail(lines), serial)
             ELSE <<ForwardItem(parts[1], parts[2], parts[3])>> \o ForwardLoop(Tail(lines), serial))

\* BaseClient.forward_list(serial); the with block closes the connection on every exit
BaseClient_forward_list(w, serial) ==
    Bind(make_connection(w), LAMBDA m :
    Bind(SendCheck(m.w, m.v,
                   IF serial # <<>> THEN CmdHostSerialCmd \o serial \o Colon \o CmdListForward
                   ELSE CmdHostListForward), LAMBDA k :
        IF k.exc # "none" THEN Leave(k, m.v)
        ELSE Bind(read_string_block(k.w.conns[m.v]), LAMBDA b :
                 IF b.exc # "none" THEN Leave(On(k.w, m.v, b), m.v)
                 ELSE Leave(WR([k.w EXCEPT !.conns[m.v] = b.c], "none",
                               ForwardLoop(splitlines(b.v), serial)), m.v))))

\* BaseDevice.forward_list(); the with block closes the connection once
\* open_transport has returned it
BaseDevice_forward_list(w) ==
    Bind(open_transport(w, CmdListForward), LAMBDA o :
        IF o.exc # "none" THEN o
        ELSE Bind(read_string_block(o.w.conns[o.v]), LAMBDA b :
                 IF b.exc # "none" THEN Leave(On(o.w, o.v, b), o.v)
                 ELSE Leave(WR([o.w EXCEPT !.conns[o.v] = b.c], "none",
                               ForwardLoop(splitlines(b.v), <<>>)), o.v)))

\* lines of a forward table, each with the fields it is made of
ForwardLines ==
    { TableLine(B("S1 tcp:1 tcp:2"), <<B("S1"), B("tcp:1"), B("tcp:2")>>),
      TableLine(B("S2 tcp:3 localabstract:a"), <<B("S2"), B("tcp:3"), B("localabstract:a")>>),
      TableLine(B("  S1\ttcp:5   tcp:6 "), <<B("S1"), B("tcp:5"), B("tcp:6")>>),
      TableLine(B("S1 tcp:7"), <<B("S1"), B("tcp:7")>>),
      TableLine(B("S1 tcp:8 tcp:9 x"), <<B("S1"), B("tcp:8"), B("tcp:9"), B("x")>>),
      TableLine(<<>>, <<>>) }

ForwardTables == UNION {[1..n -> ForwardLines] : n \in 0..MaxLines}

ForwardSerials == {<<>>, B("S1"), B("S2"), B("S3")}

ForwardListCalls ==
    { [name |-> nm, serial |-> sr, lines |-> ls, pre |-> Okay, body |-> Block(JoinLines(ls))] :
        nm \in {"BaseClient.forward_list"}, sr \in ForwardSerials, ls \in ForwardTables }
    \cup
    { [name |-> "BaseDevice.forward_list", serial |-> <<>>, lines |-> ls, pre |-> Okay,
       body |-> Block(JoinLines(ls))] : ls \in ForwardTables }
    \cup
    { [name |-> nm, serial |-> <<>>, lines |-> <<>>, pre |-> p, body |-> <<>>] :
        nm \in {"BaseClient.forward_list", "BaseDevice.forward_list"},
        p \in { Fail \o BlkNoDevice, Okay \o <<TIMEOUT>>, Okay, Okay \o B("00") } }

InitForwardList ==
    /\ call \in ForwardListCalls
    /\ script = <<call.pre \o call.body>>
    /\ features = <<>>
    /\ dev = SerialDevice
    /\ conns = <<>>
    /\ ret = NoRet
    /\ pc = "ready"
    /\ ncalls = 0
    /\ TrackIdle
    /\ HostIdle

ClientForwardList ==
    /\ pc = "ready"
    /\ call.name = "BaseClient.forward_list"
    /\ Done(BaseClient_forward_list(World, call.serial))
    /\ UNCHANGED <<call, features, trackVars, hostVars>>

DeviceForwardList ==
    /\ pc = "ready"
    /\ call.name = "BaseDevice.forward_list"
    /\ Done(BaseDevice_forward_list(World))
    /\ UNCHANGED <<call, features, trackVars, hostVars>>

NextForwardList == ClientForwardList \/ DeviceForwardList

SpecForwardList == InitForwardList /\ [][NextForwardList]_vars

\* the items a table stands for: one per line of exactly three fields, in
\* line order, and with a serial given only those whose first field is it
RECURSIVE ItemsOf(_, _)
ItemsOf(ls, serial) ==
    IF ls = <<>> THEN <<>>
    ELSE (IF Len(Head(ls).fields) = 3 /\ (serial = <<>> \/ Head(ls).fields[1] = serial)
          THEN <<ForwardItem(Head(ls).fields[1], Head(ls).fields[2], Head(ls).fields[3])>>
          ELSE <<>>) \o ItemsOf(Tail(ls), serial)

\* C29: for every response body both forward_list methods return one
\* ForwardItem per line of exactly three whitespace separated fields, in
\* line order, skip every other line and return the empty list for an empty
\* body; BaseClient.forward_list(serial) keeps only the lines whose first
\* field is the serial.
C29_ForwardListParse ==
    (pc = "done" /\ call.name \in {"BaseClient.forward_list", "BaseDevice.forward_list"}
        /\ call.pre = Okay /\ call.body # <<>>) =>
        /\ ret.exc = "none"
        /\ ret.v = ItemsOf(call.lines, call.serial)
        /\ call.lines = <<>> => ret.v = <<>>

C29_Witness ==
    /\ pc = "done"
    /\ call.name = "BaseClient.forward_list"
    /\ call.serial = B("S1")
    /\ Len(call.lines) = 3
    /\ call.lines[1].text = B("S2 tcp:3 localabstract:a")
    /\ call.lines[2].text = B("S1 tcp:7")
    /\ call.lines[3].text = B("  S1\ttcp:5   tcp:6 ")
    /\ ret = [exc |-> "none", v |-> <<ForwardItem(B("S1"), B("tcp:5"), B("tcp:6"))>>]

C29_WitnessDevice ==
    /\ pc = "done"
    /\ call.name = "BaseDevice.forward_list"
    /\ Len(call.lines) = 2
    /\ ret.exc = "none"
    /\ Len(ret.v) = 2
    /\ ret.v[1].serial = B("S2")
    /\ ret.v[2].serial = B("S1")


-----------------------------------------------------------------------------
(* BaseClient.track_devices on a connection the server closes *)

\* whole counts the snapshots the server has sent completely; ended is TRUE
\* once the server has closed the connection
InitTrackClose ==
    /\ call = [name |-> "track_devices", prev |-> NoDevices, cur |-> NoDevices,
               whole |-> 0, ended |-> FALSE]
    /\ script \in {<<Okay>>, <<Fail \o Block(B("unknown host service"))>>, <<<<>>>>}
    /\ features = <<>>
    /\ dev = [_serial |-> <<>>, _transport_id |-> 0, _features |-> {}]
    /\ conns = <<>>
    /\ ret = NoRet
    /\ pc = "ready"
    /\ ncalls = 0
    /\ TrackIdle
    /\ HostIdle

\* one turn of the while loop on connection c: read_string_block, then
\* _output2devices and the events of _diff_devices; an exception leaves the
\* with block, which closes the connection, and ends the generator
TrackTurn(c) ==
    LET b == read_string_block(c)
        curr_devices == _output2devices(b.v)
    IN  IF b.exc # "none"
        THEN /\ conns' = [conns EXCEPT ![1] = close(b.c)]
             /\ ret' = [exc |-> b.exc, v |-> b.v]
             /\ pc' = "done"
             /\ UNCHANGED <<events, orig_devices, nsnap>>
        ELSE /\ conns' = [conns EXCEPT ![1] = b.c]
             /\ \E evs \in _diff_devices(orig_devices, curr_devices) : events' = evs
             /\ orig_devices' = curr_devices
             /\ nsnap' = nsnap + 1
             /\ UNCHANGED <<ret, pc>>

\* the server sends the whole snapshot m and the generator takes a turn
TrackDeliver(m) ==
    /\ pc = "tracking"
    /\ ~call.ended
    /\ call.whole < MaxWhole
    /\ TrackTurn([conns[1] EXCEPT !.inbuf = @ \o Block(SnapshotText(m, 1))])
    /\ call' = [call EXCEPT !.prev = call.cur, !.cur = m, !.whole = @ + 1]
    /\ UNCHANGED <<script, features, dev, ncalls, hostVars>>

\* the server is killed after the first cut bytes of the block of snapshot
\* m (none of them with cut = 0) and the generator takes a turn
TrackCut(m, cut) ==
    /\ pc = "tracking"
    /\ ~call.ended
    /\ cut < Len(Block(SnapshotText(m, 1)))
    /\ TrackTurn([conns[1] EXCEPT !.inbuf = @ \o SubSeq(Block(SnapshotText(m, 1)), 1, cut)])
    /\ call' = [call EXCEPT !.ended = TRUE]
    /\ UNCHANGED <<script, features, dev, ncalls, hostVars>>

\* a turn of the loop after the server has closed the connection
TrackEnded ==
    /\ pc = "tracking"
    /\ call.ended
    /\ TrackTurn(conns[1])
    /\ UNCHANGED <<call, script, features, dev, ncalls, hostVars>>

\* the longest block of a snapshot: the length and a line per serial
MaxBlock == 4 + 2 * 11

NextTrackClose ==
    \/ TrackStart
    \/ \E m \in Snapshots : TrackDeliver(m)
    \/ \E m \in Snapshots, cut \in 0..MaxBlock : TrackCut(m, cut)
    \/ TrackEnded

SpecTrackClose == InitTrackClose /\ [][NextTrackClose]_vars

\* C30: track_devices never ends by normal exhaustion; it reads snapshots
\* for as long as the connection delivers them, and when the server closes
\* the connection the generator ends with AdbError raised to the consumer,
\* no events are yielded for a snapshot that was not received completely,
\* and the tracking connection is closed.
C30_TrackEndsWithError ==
    /\ pc = "done" => ret.exc # "none" /\ conns[1].closed
    /\ (pc = "tracking" /\ ~call.ended) => nsnap = call.whole /\ ~conns[1].closed
    /\ (call.ended /\ pc = "done") => ret.exc = "AdbError"
    /\ (call.ended /\ nsnap > call.whole) => events = <<>>


-----------------------------------------------------------------------------
(* StopEvent (_utils.py): one caller thread and a worker that calls done() *)

\* the timeout argument of stop(): None or a number of seconds
Timeouts == {"None", "0.1"}

\* __stop.set()
stop_nowait(e) == [e EXCEPT !.stop = TRUE]

is_stopped(e) == e.stop

\* __done.set()
done(e) == [e EXCEPT !.done = TRUE]

is_done(e) == e.done

reset(e) == [e EXCEPT !.stop = FALSE, !.done = FALSE]

\* a wait that does not look at the flag
wait_any(flag, timeout) == {TRUE, FALSE}

\* threading.Event.wait(timeout): the values it may return now; the empty
\* set while it blocks.  It returns True once the flag is set, and False
\* when the timeout runs out with the flag still cleared.
wait(flag, timeout) ==
    IF flag THEN {TRUE} ELSE IF timeout # "None" THEN {FALSE} ELSE {}

\* what the caller saw of the event at the end of an operation
Seen(e) == [stop |-> is_stopped(e), done |-> is_done(e)]

InitStopEvent ==
    /\ call = [name |-> "StopEvent", timeout |-> "None"]
    /\ script = <<>>
    /\ features = <<>>
    /\ dev = NoDevice
    /\ conns = <<>>
    /\ ret = [exc |-> "none", v |-> Seen(StopEvent)]
    /\ pc = "ready"
    /\ ncalls = 0
    /\ TrackIdle
    /\ localfs = {}
    /\ attempts = <<>>
    /\ handles = <<>>
    /\ thr = [NoThreads EXCEPT !.worker = "running"]

\* the end of an operation of the caller
Returned(exc) ==
    /\ ret' = [exc |-> exc, v |-> Seen(thr'.event)]
    /\ pc' = "ready"
    /\ ncalls' = ncalls + 1

\* stop(timeout) up to the wait: the stop flag is set
StopBegin(timeout) ==
    /\ pc = "ready"
    /\ ncalls < MaxOps
    /\ call' = [name |-> "stop", timeout |-> timeout]
    /\ thr' = [thr EXCEPT !.event = stop_nowait(@)]
    /\ pc' = "waiting"
    /\ UNCHANGED <<ret, ncalls>>

\* stop(timeout) from the return of __done.wait(timeout)
StopEnd ==
    /\ pc = "waiting"
    /\ UNCHANGED <<call, thr>>
    /\ \E signaled \in wait(thr.event.done, call.timeout) :
          Returned(IF ~signaled THEN "TimeoutError" ELSE "none")

StopNowait ==
    /\ pc = "ready"
    /\ ncalls < MaxOps
    /\ call' = [name |-> "stop_nowait", timeout |-> "None"]
    /\ thr' = [thr EXCEPT !.event = stop_nowait(@)]
    /\ Returned("none")

Reset ==
    /\ pc = "ready"
    /\ ncalls < MaxOps
    /\ call' = [name |-> "reset", timeout |-> "None"]
    /\ thr' = [thr EXCEPT !.event = reset(@)]
    /\ Returned("none")

\* is_stopped() and is_done() of the caller
Look ==
    /\ pc = "ready"
    /\ ncalls < MaxOps
    /\ call' = [name |-> "is_done", timeout |-> "None"]
    /\ thr' = thr
    /\ Returned("none")

\* the worker calls done()
WorkerDone ==
    /\ thr.worker = "running"
    /\ thr.ndone < MaxOps
    /\ thr' = [thr EXCEPT !.event = done(@), !.ndone = @ + 1]
    /\ UNCHANGED <<call, ret, pc, ncalls>>

NextStopEvent ==
    /\ \/ \E timeout \in Timeouts : StopBegin(timeout)
       \/ StopEnd
       \/ StopNowait
       \/ Reset
       \/ Look
       \/ WorkerDone
    /\ UNCHANGED <<script, features, dev, conns, trackVars, localfs, attempts, handles>>

SpecStopEvent == InitStopEvent /\ [][NextStopEvent]_vars

\* stop() has just returned or raised
StopEnded == call.name = "stop" /\ pc = "ready"

\* C31: stop(timeout) always sets the stop flag; it returns normally only
\* if the worker has called done() (before the call or during the wait);
\* otherwise it raises TimeoutError and leaves is_stopped() true and
\* is_done() false.  stop_nowait() sets the stop flag without waiting, and
\* is_done() becomes true only through a call to done().
C31_StopWaitsForDone ==
    /\ [](/\ (call.name = "stop" /\ pc = "waiting") => is_stopped(thr.event)
          /\ StopEnded => ret.v.stop
          /\ (StopEnded /\ ret.exc = "none") => ret.v.done /\ thr.ndone > 0
          /\ (StopEnded /\ ret.exc # "none") =>
                ret.exc = "TimeoutError" /\ ~ret.v.done /\ call.timeout # "None"
          /\ (call.name = "stop_nowait" /\ pc = "ready") => ret.exc = "none" /\ ret.v.stop)
    /\ [][/\ (~is_done(thr.event) /\ is_done(thr'.event)) => thr'.ndone = thr.ndone + 1
          /\ (ncalls' # ncalls /\ call'.name = "stop_nowait") =>
                pc = "ready" /\ pc' = "ready" /\ is_stopped(thr'.event)
          /\ (pc = "ready" /\ pc' = "waiting") => call'.name = "stop" /\ is_stopped(thr'.event)]_vars

C31_Witness ==
    /\ StopEnded
    /\ ret.exc = "none"
    /\ ncalls = 3
    /\ thr.ndone = 2

C31_WitnessTimeout ==
    /\ StopEnded
    /\ ret = [exc |-> "TimeoutError", v |-> [stop |-> TRUE, done |-> FALSE]]
    /\ thr.ndone = 1


-----------------------------------------------------------------------------
(* The local files of push and pull_file on sync sessions that may fail *)

\* what the server does with the session of a request: the handshake, then
\* tail for the request; a device that is gone; a refused sync: service; a
\* server that closes or stalls
SessionStreams(tail) ==
    { SyncOkay \o tail, Fail \o BlkNoDevice, Okay \o Ack8 \o Fail \o Block(B("closed")),
      Okay \o Ack8, Okay \o Ack8 \o <<TIMEOUT>>, <<>> }

HandleCalls ==
    { [name |-> nm, src |-> s, dst |-> B("/data/local/tmp/f"), mode |-> 493, check |-> FALSE,
       now |-> 1712500000, node |-> RNode(<<>>, 0, <<>>, <<>>),
       streams |-> (IF nm = "push" THEN <<SyncOkay \o StatReply(0, 0, 0), Ver41>> ELSE <<>>) \o <<st, Ver41>>] :
        nm \in {"push", "_push_file"}, s \in PushSources,
        st \in UNION {SessionStreams(status) : status \in SendReplies} }
    \cup
    UNION { { [name |-> "pull_file", src |-> B("/sdcard/") \o n.name, dst |-> d, mode |-> 0,
               check |-> FALSE, now |-> 0, node |-> n, streams |-> <<st, Ver41>>] :
                d \in PullDsts, st \in SessionStreams(RecvOf(n)) } :
            n \in {m \in RemoteNodes : m.kids = <<>>} }

InitHandles ==
    /\ call \in HandleCalls
    /\ script = call.streams
    /\ localfs = LocalFiles
    /\ attempts = <<>>
    /\ handles = <<>>
    /\ thr = NoThreads
    /\ features = <<>>
    /\ dev = SerialDevice
    /\ conns = <<>>
    /\ ret = NoRet
    /\ pc = "ready"
    /\ ncalls = 0
    /\ TrackIdle

NextHandles == Push \/ PushFile \/ PullFile

SpecHandles == InitHandles /\ [][NextHandles]_vars

\* C32: push closes the local source file it opened for a src given as a
\* path on every exit path (success, FAIL status, and a sync session that
\* could not be opened), and pull_file closes the local destination file on
\* every exit path.
C32_LocalFilesClosed ==
    pc = "done" => \A h \in 1..Len(handles) : handles[h].closed


-----------------------------------------------------------------------------
(* Sync.pull_dir over remote directory trees *)

RFile(name, data) == RNode(name, 33188, data, <<>>)

RDir(name, kids) == RNode(name, 16877, <<>>, <<Dot, DotDot>> \o kids)

\* a unix socket, mode 0o140755
RSocket(name) == RNode(name, 49645, <<>>, <<>>)

\* directory trees of the device: regular files and directories, empty
\* directories, equal names at different depths, and a tree with a socket
RemoteTrees ==
    { RDir(B("nothing"), <<>>),
      RDir(B("tree"), <<RFile(B("a.txt"), B("hello")),
                        RDir(B("sub"), <<RFile(B("b.txt"), B("x"))>>),
                        RDir(B("void"), <<>>)>>),
      RDir(B("deep"), <<RDir(B("a"), <<RDir(B("a"), <<RFile(B("a"), B("abc")), RFile(B("e"), <<>>)>>)>>),
                        RFile(B("z"), B("zz")),
                        RDir(B("b"), <<RFile(B("z"), B("y"))>>)>>),
      RDir(B("flat"), <<RFile(B("1"), B("one")), RFile(B("2"), B("two")), RFile(B("3"), B("three"))>>),
      RDir(B("run"), <<RFile(B("pid"), B("42")), RSocket(B("ctl")), RFile(B("log"), B("started"))>>) }

PullDirCalls ==
    { [name |-> "pull_dir", src |-> s \o n.name, node |-> n, dst |-> d, exist_ok |-> e] :
        s \in {B("/sdcard/"), B("/data/local/tmp/x/")}, n \in RemoteTrees, d \in PullDsts, e \in BOOLEAN }

InitPullDir ==
    /\ call \in PullDirCalls
    /\ script = ListSessions(call.node)
    /\ localfs = LocalFiles
    /\ attempts = <<>>
    /\ handles = <<>>
    /\ thr = NoThreads
    /\ features = <<>>
    /\ dev = SerialDevice
    /\ conns = <<>>
    /\ ret = NoRet
    /\ pc = "ready"
    /\ ncalls = 0
    /\ TrackIdle

SpecPullDir == InitPullDir /\ [][PullDir]_vars

\* the file type of a mode: its bits 12 to 15
FileType(mode) == (mode \div 4096) % 16

SubDirs(n) == SelectSeq(RealKids(n), LAMBDA k : FileType(k.mode) = 4)

RegularFiles(n) == SelectSeq(RealKids(n), LAMBDA k : FileType(k.mode) = 8)

\* the directories of the tree n put at the path p, p included
RECURSIVE TreeDirs(_, _)
TreeDirs(n, p) ==
    {p} \cup UNION { TreeDirs(SubDirs(n)[i], p \o <<Slash>> \o SubDirs(n)[i].name) : i \in 1..Len(SubDirs(n)) }

\* the regular files of the tree n put at the path p
RECURSIVE TreeFiles(_, _)
TreeFiles(n, p) ==
    { [path |-> p \o <<Slash>> \o RegularFiles(n)[i].name, kind |-> "file", data |-> RegularFiles(n)[i].data] :
        i \in 1..Len(RegularFiles(n)) }
    \cup UNION { TreeFiles(SubDirs(n)[i], p \o <<Slash>> \o SubDirs(n)[i].name) : i \in 1..Len(SubDirs(n)) }

RECURSIVE SumSizes(_)
SumSizes(fs) ==
    IF fs = {} THEN 0 ELSE Len((CHOOSE f \in fs : TRUE).data) + SumSizes(fs \ {CHOOSE f \in fs : TRUE})

\* the sessions that asked cmd of path
Asked(cmd, path) ==
    {i \in 1..Len(conns) : IsSession(i) /\ SessionSent(i) = SyncHeader(cmd, path)}

EndsWith(s, t) == Len(s) >= Len(t) /\ SubSeq(s, Len(s) - Len(t) + 1, Len(s)) = t

\* dst can be made a directory: neither it nor a path above it is a file
DstUsable(dst) == \A a \in Ancestors(Path(dst)) \cup {Path(dst)} : FsKind(LocalFiles, a) # "file"

\* C33: for any finite remote directory tree pull_dir(src, dst) ends,
\* creates a local directory for dst and for every remote subdirectory
\* (empty ones too), pulls every regular file exactly once to the same
\* relative path under dst, never lists '.' or '..', and returns the sum of
\* the sizes of the pulled files.
C33_PullDirWholeTree ==
    (call.name = "pull_dir" /\ pc = "done" /\ call.exist_ok /\ DstUsable(call.dst)) =>
        /\ ret.exc = "none"
        /\ ret.v = SumSizes(TreeFiles(call.node, Path(call.dst)))
        /\ \A d \in TreeDirs(call.node, Path(call.dst)) : FsKind(localfs, d) = "dir"
        /\ TreeFiles(call.node, Path(call.dst)) \subseteq localfs
        /\ \A f \in TreeFiles(call.node, call.src) : Cardinality(Asked(RECV, f.path)) = 1
        /\ \A i \in 1..Len(conns) :
              IsSession(i) => /\ ~EndsWith(SessionSent(i), B("/."))
                              /\ ~EndsWith(SessionSent(i), B("/.."))

\* the same for the trees that hold only directories and regular files
C33_PlainTrees ==
    call.node.name # B("run") => C33_PullDirWholeTree


-----------------------------------------------------------------------------
(* The operations of the client together: what each connection wrote and read *)

InitOps ==
    \/ InitOpenTransport
    \/ InitForward
    \/ InitShellV2
    \/ InitShell
    \/ InitReverseList
    \/ InitStat
    \/ InitHandles
    \/ InitPull
    \/ InitWaitFor
    \/ InitTrack

NextOps ==
    \/ OpenTransport
    \/ Forward
    \/ ShellV2
    \/ Shell
    \/ ReverseList
    \/ Stat
    \/ Exists
    \/ Push
    \/ PushFile
    \/ Pull
    \/ PullFile
    \/ PullDir
    \/ WaitFor
    \/ TrackStart

SpecOps == InitOps /\ [][NextOps]_vars

\* the number of bytes the entries of io before the i-th moved in direction op
RECURSIVE Moved(_, _, _)
Moved(io, i, op) ==
    IF i <= 1 THEN 0
    ELSE Moved(io, i - 1, op) + (IF io[i - 1].op = op THEN io[i - 1].n ELSE 0)

\* the bytes the i-th entry of the io trace of c wrote or read
IoBytes(c, i) ==
    SubSeq(IF c.io[i].op = "send" THEN c.sent ELSE c.rd,
           Moved(c.io, i, c.io[i].op) + 1, Moved(c.io, i, c.io[i].op) + c.io[i].n)

\* the i-th entry of the io trace of c wrote a command frame: four hex
\* digits and as many bytes as they say
IsFrame(c, i) ==
    /\ c.io[i].op = "send"
    /\ c.io[i].n >= 4
    /\ IoBytes(c, i) = Block(Drop(IoBytes(c, i), 4))

\* the i-th entry wrote a sync request header
IsSyncRequest(c, i) ==
    /\ c.io[i].op = "send"
    /\ c.io[i].n >= 8
    /\ SubSeq(IoBytes(c, i), 1, 4) \in {STAT, LIST, SEND, RECV}
    /\ c.io[i].n = 8 + U32(IoBytes(c, i), 5)

\* the entry after the j-th read a status frame out of answers
StatusRead(c, j, answers) ==
    /\ j < Len(c.io)
    /\ c.io[j + 1].op = "recv"
    /\ IoBytes(c, j + 1) \in answers

\* the command frames that select a device
Selections ==
    { Block(CmdHostTport \o Serial), Block(CmdHostTransport \o Serial), Block(CmdHostTransportId \o DecStr(5)) }

-----------------------------------------------------------------------------
(* open_transport(): the selection of the device by the server's version *)

\* versions around 41, and the largest that four hex digits hold
ServerVersions == {1, 39, 40, 41, 42, 65535}

\* what the server sends behind the OKAY of the selection: the reply to the
\* next command alone, the 8 byte acknowledgment and that reply, an
\* acknowledgment cut short, nothing
AfterOkay ==
    { <<>>, Okay, Ack8, Ack8 \o Okay, Ack8 \o Fail \o BlkNoDevice, Okay \o Block(B("device")),
      <<1, 2, 3, 4, 5, 6, 7, 8, 9>>, <<5, 0, 0>> }

SelectCalls ==
    [name : {"open_transport"}, command : {<<>>}, version : ServerVersions, after : AfterOkay,
     status : {Okay, Fail \o BlkNoDevice}]

InitSelect ==
    /\ call \in SelectCalls
    /\ script = <<call.status \o call.after, Okay \o Block(Format04x(call.version))>>
    /\ features = <<>>
    /\ dev \in Devices
    /\ conns = <<>>
    /\ ret = NoRet
    /\ pc = "ready"
    /\ ncalls = 0
    /\ TrackIdle
    /\ HostIdle

SpecSelect == InitSelect /\ [][OpenTransport]_vars

\* the selection frame open_transport is to write for the device
SelectionFor(d, version) ==
    IF d._transport_id # 0 THEN Block(CmdHostTransportId \o DecStr(d._transport_id))
    ELSE IF version >= 41 THEN Block(CmdHostTport \o d._serial)
    ELSE Block(CmdHostTransport \o d._serial)

\* the bytes of the acknowledgment that belongs to the selection
AckLen(d, version) == IF d._transport_id = 0 /\ version >= 41 THEN 8 ELSE 0

\* C35: for the selection by serial open_transport sends
\* host:tport:serial:<serial> exactly when the server version is at least 41
\* and host:transport:<serial> otherwise; behind OKAY it consumes exactly 8
\* further bytes in the tport case and none in the host:transport case (and
\* none for host:transport-id:<id>), so on return the first unread byte is
\* the first byte of the reply to the next command.
C35_SelectionByVersion ==
    IsDone("open_transport") =>
        /\ conns[1].sent = SelectionFor(dev, call.version)
        /\ ret.exc = "none" <=> call.status = Okay
        /\ ret.exc = "none" =>
              /\ ~conns[1].closed
              /\ conns[1].rd = Okay \o Take(call.after, AckLen(dev, call.version))
              /\ conns[1].inbuf = Drop(call.after, AckLen(dev, call.version))
              /\ Len(call.after) >= 8 => Len(conns[1].rd) = 4 + AckLen(dev, call.version)

C35_Witness ==
    /\ IsDone("open_transport")
    /\ call.version = 41
    /\ dev._serial = Serial
    /\ call.after = Ack8 \o Okay
    /\ ret.exc = "none"
    /\ conns[1].sent = Block(B("host:tport:serial:S1"))
    /\ conns[1].inbuf = Okay

C35_WitnessOld ==
    /\ IsDone("open_transport")
    /\ call.version = 40
    /\ dev._serial = Serial
    /\ call.after = Okay \o Block(B("device"))
    /\ ret.exc = "none"
    /\ conns[1].sent = Block(B("host:transport:S1"))
    /\ conns[1].inbuf = call.after


-----------------------------------------------------------------------------
(* Sync.stat and Sync.list on a response that arrives in several segments *)

\* s with a segment boundary behind each of the positions in cuts
RECURSIVE SegmentedFrom(_, _, _)
SegmentedFrom(s, cuts, i) ==
    IF i > Len(s) THEN <<>>
    ELSE <<s[i]>> \o (IF i \in cuts THEN <<SEG>> ELSE <<>>) \o SegmentedFrom(s, cuts, i + 1)

Segmented(s, cuts) == SegmentedFrom(s, cuts, 1)

\* the sets of at most k places inside n bytes where a boundary can fall
RECURSIVE CutSets(_, _)
CutSets(n, k) ==
    IF k = 0 THEN {{}}
    ELSE Bind(CutSets(n, k - 1), LAMBDA less : less \cup {x \cup {i} : x \in less, i \in 1..(n - 1)})

\* well-formed answers to STAT
StatReplies == {StatReply(33188, 5, 1712500000), StatReply(16877, 0, 1), StatReply(0, 0, 0)}

\* well-formed answers to LIST: no entry, one entry
ListReplies ==
    { ListOf(RNode(B("d"), 16877, <<>>, kids)) :
        kids \in { <<>>, <<RNode(B("bc"), 33188, <<7>>, <<>>)>> } }

SegmentCalls ==
    UNION { { [name |-> "stat", path |-> B("/sdcard/f"), reply |-> r, cuts |-> x] :
                x \in CutSets(Len(r), MaxCuts) } : r \in StatReplies }
    \cup
    UNION { { [name |-> "list", path |-> B("/sdcard/d"), reply |-> r, cuts |-> x] :
                x \in CutSets(Len(r), MaxCuts) } : r \in ListReplies }

InitSegments ==
    /\ call \in SegmentCalls
    /\ script = <<SyncOkay \o Segmented(call.reply, call.cuts), Ver41>>
    /\ features = <<>>
    /\ dev = SerialDevice
    /\ conns = <<>>
    /\ ret = NoRet
    /\ pc = "ready"
    /\ ncalls = 0
    /\ TrackIdle
    /\ HostIdle

\* Sync.list(path)
List ==
    /\ pc = "ready"
    /\ call.name = "list"
    /\ Done(iter_directory(World, call.path))
    /\ UNCHANGED <<call, features, trackVars, hostVars>>

NextSegments == Stat \/ List

SpecSegments == InitSegments /\ [][NextSegments]_vars

\* the server of the call when every field of its answer arrives in one piece
WholeWorld == [conns |-> <<>>, script |-> <<SyncOkay \o call.reply, Ver41>>, dev |-> SerialDevice]

\* what the call gives in that world
WholeResult ==
    Bind(IF call.name = "stat" THEN stat(WholeWorld, call.path)
         ELSE iter_directory(WholeWorld, call.path), LAMBDA r : [exc |-> r.exc, v |-> r.v])

\* C36: the results of Sync.stat and Sync.list do not depend on how the
\* transport splits the response across socket reads: for a well-formed STAT
\* or LIST response any segmentation of the bytes, the 12 byte STAT payload
\* or a 16 byte DENT header in two segments included, gives the same FileInfo
\* values as when each field arrives in one piece.
C36_SegmentationIndependent ==
    (pc = "done" /\ call.name \in {"stat", "list"}) => ret = WholeResult

\* the places where a field of the answer ends: behind the 4 byte id of a
\* frame and behind the four integers of an entry
RECURSIVE FieldEnds(_, _)
FieldEnds(reply, at) ==
    IF at + 4 > Len(reply) THEN {}
    ELSE IF SubSeq(reply, at + 1, at + 4) = DENT
    THEN {at + 4, at + 20, at + 20 + U32(reply, at + 17)}
         \cup FieldEnds(reply, at + 20 + U32(reply, at + 17))
    ELSE {at + 4, at + 16, at + 20}

\* segments that end where a field ends leave the result as it is
C36_WholeFields ==
    (pc = "done" /\ call.name \in {"stat", "list"} /\ call.cuts \subseteq FieldEnds(call.reply, 0))
        => ret = WholeResult

\* a name that arrives in two segments is read whole (read_string loops)
C36_NameInTwo ==
    (pc = "done" /\ call.name = "list" /\ call.cuts = {21})
        => /\ ret = WholeResult /\ ret.exc = "none" /\ Len(ret.v) = 1 /\ ret.v[1].path = B("bc")


-----------------------------------------------------------------------------
(* _shell_v2: where the frame loop stops reading *)

\* the first frame of the call whose stream id is 3 (0: there is none)
FirstExit ==
    IF \E i \in 1..Len(call.frames) : call.frames[i].id = 3
    THEN CHOOSE i \in 1..Len(call.frames) :
             call.frames[i].id = 3 /\ \A j \in 1..(i - 1) : call.frames[j].id # 3
    ELSE 0

\* the bytes the device has sent up to the end of that frame
ThroughExit == call.pre \o EncodeFrames(SubSeq(call.frames, 1, FirstExit))

\* C37: the shell v2 reader stops at the first frame whose stream id is 3,
\* whatever length that frame declares, and consumes no bytes after that
\* frame; it never continues waiting for further frames once an exit frame
\* has been received.
C37_StopsAtExitFrame ==
    (IsDone("_shell_v2") /\ Handshaken /\ FirstExit # 0) =>
        /\ ret.exc = "none"
        /\ conns[1].rd = ThroughExit
        /\ conns[1].inbuf = call.cut

\* an exit frame that declares a payload ends the loop, and what follows it
\* is left unread
C37_PayloadExitStops ==
    (IsDone("_shell_v2") /\ Handshaken /\ FirstExit # 0 /\ call.frames[FirstExit].data # <<>>) =>
        /\ ret.exc = "none"
        /\ ret.v.returncode = call.frames[FirstExit].data[1]
        /\ conns[1].rd = ThroughExit
        /\ conns[1].inbuf = call.cut

\* behind an exit frame of length 0 the loop reads on: it ends with the
\* error of the next read
C37_EmptyExitReadsOn ==
    (IsDone("_shell_v2") /\ Handshaken /\ FirstExit # 0 /\ call.frames[FirstExit].data = <<>>) =>
        /\ ret.exc \in {"EOFError", "AdbTimeout"}
        /\ Len(conns[1].rd) >= Len(ThroughExit)


-----------------------------------------------------------------------------
(* AdbConnection.read and read_exact on a stream that arrives in segments *)

\* the bytes of a stream, without the marks of its segments
Unseg(s) == SelectSeq(s, LAMBDA b : b # SEG)

PeerBytes == <<10, 20, 30, 40, 50, 60>>

\* what the peer sends before it closes, and how the transport splits it
SegmentedStreams ==
    UNION { { Segmented(Take(PeerBytes, k), x) : x \in CutSets(k, MaxCuts) } : k \in 0..Len(PeerBytes) }

ReadSizes == {0, 1, 3, 4, 6, 7}

InitRead ==
    /\ call = [name |-> "AdbConnection", arg |-> 0, before |-> AdbConnection(<<>>)]
    /\ script \in {<<s>> : s \in SegmentedStreams}
    /\ conns = <<AdbConnection(Head(script))>>
    /\ HostIdle
    /\ features = <<>>
    /\ dev = SerialDevice
    /\ ret = NoRet
    /\ pc = "open"
    /\ ncalls = 0
    /\ TrackIdle

ReadN == \E n \in ReadSizes : Operated("read", n, read(conns[1], n))

ReadExactN == \E n \in ReadSizes : Operated("read_exact", n, read_exact(conns[1], n))

NextRead == ReadN \/ ReadExactN

SpecRead == InitRead /\ [][NextRead]_vars

\* the bytes that were still to arrive when the last operation began
Arriving == Unseg(call.before.inbuf)

\* C38: for any way the peer's byte stream is split across socket recv
\* results, read(n) returns exactly the next n unread bytes when at least n
\* bytes arrive before the peer closes, and otherwise all bytes received
\* before the close (fewer than n); it never returns more than n bytes, never
\* drops or reorders bytes, and read_exact(n) raises EOFError exactly in the
\* short case.
C38_ReadUnderAnySplit ==
    call.name \in {"read", "read_exact"} =>
        /\ Len(Arriving) >= call.arg => (ret.exc = "none" /\ ret.v = Take(Arriving, call.arg))
        /\ (Len(Arriving) < call.arg /\ call.name = "read") => (ret.exc = "none" /\ ret.v = Arriving)
        /\ ret.exc = "EOFError" <=> (call.name = "read_exact" /\ Len(Arriving) < call.arg)
        /\ ret.exc \in {"none", "EOFError"}
        /\ Len(ret.v) <= call.arg
        /\ conns[1].rd = call.before.rd \o Take(Arriving, call.arg)
        /\ Unseg(conns[1].inbuf) = Drop(Arriving, Min(call.arg, Len(Arriving)))
        /\ conns[1].rd \o Unseg(conns[1].inbuf) = Unseg(Head(script))

\* four bytes that arrive in three segments, read as one
C38_Witness ==
    /\ call.name = "read" /\ call.arg = 4
    /\ call.before.inbuf = <<10, SEG, 20, 30, SEG, 40, 50>>
    /\ ret.exc = "none" /\ ret.v = <<10, 20, 30, 40>>
    /\ conns[1].inbuf = <<50>>

\* read_exact that finds the peer closed after two segments
C38_WitnessShort ==
    /\ call.name = "read_exact" /\ call.arg = 4
    /\ call.before.inbuf = <<20, SEG, 30>>
    /\ call.before.rd = <<10>>
    /\ ret.exc = "EOFError"
    /\ conns[1].rd = <<10, 20, 30>>


-----------------------------------------------------------------------------
(* track_devices: a listener that keeps a map of the devices from the events *)

\* the texts the server may send for the snapshot m: its lines, and its
\* lines twice behind a line without a tab
SnapshotTexts(m) ==
    { SnapshotText(m, 1), B("junk") \o Newline \o SnapshotText(m, 1) \o SnapshotText(m, 1) }

\* the place of a serial in Serials (0: not one of them)
SerialIndex(serial) ==
    IF \E i \in 1..Len(Serials) : Serials[i] = serial
    THEN CHOOSE i \in 1..Len(Serials) : Serials[i] = serial
    ELSE 0

\* the listener's map after the events evs, in the order they were emitted:
\* a present event sets the status of its serial, an absent one removes it
RECURSIVE ApplyEvents(_, _)
ApplyEvents(evs, map) ==
    IF evs = <<>> THEN map
    ELSE ApplyEvents(Tail(evs),
             [map EXCEPT ![SerialIndex(Head(evs).serial)] =
                 IF Head(evs).present = TRUE THEN Head(evs).status ELSE Gone])

InitTrackMap ==
    /\ call = [name |-> "track_devices", prev |-> NoDevices, cur |-> NoDevices, map |-> NoDevices]
    /\ script \in {<<Okay>>, <<Fail \o Block(B("unknown host service"))>>}
    /\ features = <<>>
    /\ dev = [_serial |-> <<>>, _transport_id |-> 0, _features |-> {}]
    /\ conns = <<>>
    /\ ret = NoRet
    /\ pc = "ready"
    /\ ncalls = 0
    /\ TrackIdle
    /\ HostIdle

\* the variables after a turn of the loop that read the block as b and
\* yielded the events evs to the listener
TrackTurned(m, b, curr_devices, evs) ==
    /\ b.exc = "none"
    /\ conns' = [conns EXCEPT ![1] = b.c]
    /\ events' = evs
    /\ orig_devices' = curr_devices
    /\ call' = [call EXCEPT !.prev = call.cur, !.cur = m, !.map = ApplyEvents(evs, call.map)]

\* one turn of the loop of track_devices, with the listener applying the
\* events as they are yielded
TrackApply(m) ==
    /\ pc = "tracking"
    /\ nsnap < MaxSnapshots
    /\ \E text \in SnapshotTexts(m) :
          Bind(read_string_block([conns[1] EXCEPT !.inbuf = @ \o Block(text)]), LAMBDA b :
              Bind(_output2devices(b.v), LAMBDA curr_devices :
                  \E evs \in _diff_devices(orig_devices, curr_devices) :
                      TrackTurned(m, b, curr_devices, evs)))
    /\ nsnap' = nsnap + 1
    /\ UNCHANGED <<script, features, dev, ret, pc, ncalls, hostVars>>

NextTrackMap == TrackStart \/ \E m \in Snapshots : TrackApply(m)

SpecTrackMap == InitTrackMap /\ [][NextTrackMap]_vars

\* C39: after any finite sequence of snapshots read by track_devices,
\* applying the emitted events in emission order to an initially empty
\* serial-to-status map (a present event sets the serial's status, an absent
\* event removes the serial) yields exactly the serial-to-status map of the
\* latest snapshot.
C39_EventsRebuildSnapshot ==
    pc = "tracking" => call.map = call.cur

\* a device that changed its status while another one left: the absent
\* events and then the present event were applied
C39_Witness ==
    /\ pc = "tracking" /\ nsnap = MaxSnapshots
    /\ call.prev = <<B("device"), B("device")>>
    /\ call.cur = <<B("offline"), Gone>>
    /\ Len(events) = 3
    /\ events[3] = DeviceEvent(TRUE, B("S1"), B("offline"))
    /\ call.map = call.cur


-----------------------------------------------------------------------------
(* BaseDevice.logcat: the caller, the _copy2file worker thread and the      *)
(* device that writes the log                                               *)

CmdLogcat == B("logcat -v time")

LogFile == B("/tmp/logcat.txt")

\* the lines the device is still to send when logcat is called
Feeds ==
    { <<>>, <<B("a") \o Newline>>, <<B("a") \o Newline, B("bc") \o Newline>>,
      <<B("a") \o Newline, B("tail")>> }

\* the finally block of _copy2file that signals done() before it closes
FinallyDoneFirst == <<"fsrc.close", "event.done", "stream.close">>

\* the statements of the finally block of _copy2file, in order
Finally == <<"fsrc.close", "stream.close", "event.done">>

InitLogcat ==
    /\ call = [name |-> "logcat", timeout |-> "None"]
    /\ script \in { <<Okay \o Ack8 \o Okay, Ver41>>, <<Okay \o Ack8 \o Fail \o Block(B("closed")), Ver41>>,
                    <<Fail \o BlkNoDevice, Ver41>> }
    /\ features = <<>>
    /\ dev = SerialDevice
    /\ conns = <<>>
    /\ ret = NoRet
    /\ pc = "start"
    /\ ncalls = 0
    /\ TrackIdle
    /\ localfs \in {LocalFiles, {}}
    /\ attempts = <<>>
    /\ handles = <<>>
    /\ thr \in {[NoThreads EXCEPT !.feed = f] : f \in Feeds}

\* the variables after logcat ended as r: with an exception of shell() or of
\* open(), or with the thread started and the event returned
LogcatEnded(r) ==
    /\ conns' = r.w.conns
    /\ script' = r.w.script
    /\ dev' = r.w.dev
    /\ localfs' = r.w.fs
    /\ handles' = r.w.handles
    /\ ret' = [exc |-> r.exc, v |-> IF r.exc = "none" THEN Seen(StopEvent) ELSE r.v]
    /\ pc' = IF r.exc = "none" THEN "ready" ELSE "done"
    /\ thr' = IF r.exc = "none" THEN [thr EXCEPT !.event = StopEvent, !.worker = "makefile"] ELSE thr

\* logcat(file): event = StopEvent(); stream = self.shell(command,
\* stream=True); fdst = open(file, "w"); the thread is started
Logcat ==
    /\ pc = "start"
    /\ LogcatEnded(Bind(shell(HostWorld, CmdLogcat, TRUE, TRUE, TRUE), LAMBDA stream :
           IF stream.exc # "none" THEN stream
           ELSE Bind(OpenDest(stream.w, Path(LogFile)), LAMBDA fdst :
                    IF fdst.exc # "none" THEN fdst ELSE WR(fdst.w, "none", stream.v))))
    /\ UNCHANGED <<call, features, trackVars, attempts, ncalls>>

\* the device writes its next line to the shell connection
DeviceLogs ==
    /\ thr.worker # "none"
    /\ thr.peer = "open"
    /\ thr.feed # <<>>
    /\ conns' = [conns EXCEPT ![1].inbuf = @ \o Head(thr.feed)]
    /\ thr' = [thr EXCEPT !.feed = Tail(@)]
    /\ UNCHANGED <<call, ret, pc, ncalls, script, features, dev, trackVars, localfs, attempts, handles>>

\* the device closes the shell connection
DeviceCloses ==
    /\ thr.worker # "none"
    /\ thr.peer = "open"
    /\ thr' = [thr EXCEPT !.peer = "closed"]
    /\ UNCHANGED <<call, ret, pc, ncalls, conns, script, features, dev, trackVars, localfs, attempts, handles>>

\* a step of the worker that leaves all but thr and the connections alone
WorkerStep == UNCHANGED <<call, ret, pc, ncalls, script, features, dev, trackVars, localfs, attempts, handles>>

\* fsrc = stream.conn.makefile("r", encoding="UTF-8", errors="replace")
WkMakefile ==
    /\ thr.worker = "makefile"
    /\ thr' = [thr EXCEPT !.worker = "is_stopped"]
    /\ UNCHANGED conns
    /\ WorkerStep

\* while not event.is_stopped()
WkIsStopped ==
    /\ thr.worker = "is_stopped"
    /\ thr' = [thr EXCEPT !.worker = IF is_stopped(thr.event) THEN Finally[1] ELSE "readline"]
    /\ UNCHANGED conns
    /\ WorkerStep

\* the first line break of the unread bytes (0: none)
LineEnd(buf) ==
    IF \E i \in 1..Len(buf) : buf[i] = 10
    THEN CHOOSE i \in 1..Len(buf) : buf[i] = 10 /\ \A j \in 1..(i - 1) : buf[j] # 10
    ELSE 0

\* the variables after readline() took the first n unread bytes
WkLine(n) ==
    /\ conns' = [conns EXCEPT ![1].inbuf = Drop(@, n), ![1].rd = @ \o Take(conns[1].inbuf, n)]
    /\ thr' = [thr EXCEPT !.line = Decode(Take(conns[1].inbuf, n)),
                          !.worker = IF n = 0 THEN Finally[1] ELSE "write"]

\* line = fsrc.readline(): blocks until a whole line has arrived or the
\* device has closed; '' at the end of the stream leaves the loop
WkReadline ==
    /\ thr.worker = "readline"
    /\ LineEnd(conns[1].inbuf) # 0 \/ thr.peer = "closed"
    /\ WkLine(IF LineEnd(conns[1].inbuf) # 0 THEN LineEnd(conns[1].inbuf) ELSE Len(conns[1].inbuf))
    /\ WorkerStep

\* if filter_func(line): fdst.write(line); fdst.flush()   (re_filter is None)
WkWrite ==
    /\ thr.worker = "write"
    /\ thr' = [thr EXCEPT !.out = Append(@, thr.line), !.worker = "is_stopped"]
    /\ UNCHANGED conns
    /\ WorkerStep

\* the statement at place i of the finally block
WkFinally(i) ==
    /\ thr.worker = Finally[i]
    /\ conns' = IF Finally[i] = "stream.close" THEN [conns EXCEPT ![1] = close(@)] ELSE conns
    /\ thr' = [thr EXCEPT !.event = IF Finally[i] = "event.done" THEN done(@) ELSE @,
                          !.ndone = IF Finally[i] = "event.done" THEN @ + 1 ELSE @,
                          !.worker = IF i < Len(Finally) THEN Finally[i + 1] ELSE "ended"]
    /\ WorkerStep

\* the operations of the caller on the event that logcat returned
CallerStep ==
    /\ \/ \E timeout \in Timeouts : StopBegin(timeout)
       \/ StopEnd
       \/ StopNowait
       \/ Look
    /\ UNCHANGED <<script, features, dev, conns, trackVars, localfs, attempts, handles>>

NextLogcat ==
    \/ Logcat
    \/ CallerStep
    \/ DeviceLogs
    \/ DeviceCloses
    \/ WkMakefile
    \/ WkIsStopped
    \/ WkReadline
    \/ WkWrite
    \/ \E i \in 1..Len(Finally) : WkFinally(i)

SpecLogcat == InitLogcat /\ [][NextLogcat]_vars

\* C40: in logcat the worker thread signals done() only after it has left
\* its read loop and closed the shell connection, under every interleaving
\* of the caller's stop() with the worker: whenever StopEvent.stop() returns
\* normally the connection is closed, and no line is written to the output
\* file after stop() has returned.
C40_DoneAfterClose ==
    /\ [](/\ is_done(thr.event) => (thr.worker = "ended" /\ conns[1].closed)
          /\ (StopEnded /\ ret.exc = "none") => (thr.worker = "ended" /\ conns[1].closed))
    /\ [][/\ (~is_done(thr.event) /\ is_done(thr'.event)) =>
                (thr.worker \notin {"is_stopped", "readline", "write"} /\ conns[1].closed)
          /\ (StopEnded /\ ret.exc = "none") => thr'.out = thr.out
          /\ is_done(thr.event) => (thr'.out = thr.out /\ is_done(thr'.event))]_vars

\* stop() was called while the worker held a line: the line was written,
\* the worker left the loop and closed the connection, and stop() returned
C40_Witness ==
    /\ StopEnded /\ ret.exc = "none" /\ call.timeout = "None"
    /\ thr.out = <<B("a") \o Newline>>
    /\ thr.feed = <<B("bc") \o Newline>>
    /\ thr.worker = "ended"
    /\ conns[1].closed
    /\ thr.peer = "open"

\* stop(0.1) gave up while the worker was blocked in readline()
C40_WitnessBlocked ==
    /\ StopEnded /\ ret.exc = "TimeoutError"
    /\ thr.worker = "readline"
    /\ ~conns[1].closed

=============================================================================
